---------------------------- MODULE Spec2Model ----------------------------
(***************************************************************************)
(* A model of marzipan's PEG runtime (src/src/peg/peg.rs), of the code the *)
(* grammar! macro generates (src/peg_macro/src/lib.rs), of the script      *)
(* grammar and the chunked parse (src/src/labels/parse.rs), of the label   *)
(* registry (src/src/labels/sanitize.rs) and of the label pipeline         *)
(* (src/src/labels/process.rs).                                            *)
(*                                                                         *)
(* Strings are sequences of bytes (ASCII codes), so that case folding,     *)
(* digit tests and increment's arithmetic are computed as the code does.   *)
(***************************************************************************)
EXTENDS Integers, Sequences, FiniteSets, TLC

VARIABLES
    input,      \* ParseState.input, as bytes
    offset,     \* ParseState.offset
    captures,   \* ParseState.captures: sequence of RawCapture
    stack,      \* call stack of the generated rule functions (one frame per term being run)
    ret,        \* value returned by the term that finished last: "none", "true", "false"
    last,       \* the frame that returned last (its entry offset and capture buffer)
    pc,         \* position of process_labels / of the registry driver
    stats,      \* Vec<ParsedStat>: one chunk list per stat
    codes,      \* board.stats of the cloned board, whose code process_labels replaces
    messages,   \* the root Context's message sink
    registry,   \* Registry
    pool,       \* label_names of anonymous_forward_pass (kept for inspection)
    returned,   \* what process_labels returned: "none", "Some", "None"
    board,      \* the &Board argument of process_labels: its stats
    hist,       \* the chunk lists as they were after each pass
    ctr,        \* the string a caller of increment keeps incrementing
    iter,       \* the number of times that caller has called increment
    log,        \* the calls of sanitize made so far, with what they returned
    scopes,     \* the Context values a caller of error.rs has created, the root first
    arg,        \* the arguments of the library call under way
    out         \* what that call has written or returned

vars == <<input, offset, captures, stack, ret, last, pc, stats, codes,
          messages, registry, pool, returned, board, hist, ctr, iter, log,
          scopes, arg, out>>

pegVars == <<input, offset, captures, stack, ret, last>>
pipeVars == <<stats, codes, messages, registry, pool, returned>>
regVars == <<ctr, iter, log>>
libVars == <<scopes, arg, out>>

---------------------------------------------------------------------------
(* Bytes and strings *)

Lower == <<"a","b","c","d","e","f","g","h","i","j","k","l","m",
           "n","o","p","q","r","s","t","u","v","w","x","y","z">>
Upper == <<"A","B","C","D","E","F","G","H","I","J","K","L","M",
           "N","O","P","Q","R","S","T","U","V","W","X","Y","Z">>
Digit == <<"0","1","2","3","4","5","6","7","8","9">>

\* ASCII code of a one-character string.
Ord(c) ==
    IF \E i \in 1..26 : Lower[i] = c THEN 96 + (CHOOSE i \in 1..26 : Lower[i] = c)
    ELSE IF \E i \in 1..26 : Upper[i] = c THEN 64 + (CHOOSE i \in 1..26 : Upper[i] = c)
    ELSE IF \E i \in 1..10 : Digit[i] = c THEN 47 + (CHOOSE i \in 1..10 : Digit[i] = c)
    ELSE CASE c = "\n" -> 10
           [] c = "\r" -> 13
           [] c = "%"  -> 37
           [] c = " "  -> 32
           [] c = "\"" -> 34
           [] c = "("  -> 40
           [] c = ")"  -> 41
           [] c = "="  -> 61
           [] c = "\\" -> 92
           [] c = "#"  -> 35
           [] c = "$"  -> 36
           [] c = ","  -> 44
           [] c = "."  -> 46
           [] c = "/"  -> 47
           [] c = ":"  -> 58
           [] c = ";"  -> 59
           [] c = "?"  -> 63
           [] c = "@"  -> 64
           [] c = "_"  -> 95
           [] c = "~"  -> 126

\* The bytes of a string written as a tuple of one-character strings.
Str(s) == [i \in 1..Len(s) |-> Ord(s[i])]

IsUpper(b) == b >= 65 /\ b <= 90
IsLower(b) == b >= 97 /\ b <= 122
IsAsciiAlphabetic(b) == IsUpper(b) \/ IsLower(b)
IsAsciiDigit(b) == b >= 48 /\ b <= 57
ToAsciiLowercase(b) == IF IsUpper(b) THEN b + 32 ELSE b
ToAsciiUppercase(b) == IF IsLower(b) THEN b - 32 ELSE b
LowerStr(s) == [i \in 1..Len(s) |-> ToAsciiLowercase(s[i])]
EqIgnoreAsciiCase(s, t) == LowerStr(s) = LowerStr(t)

\* UTF-8: the length of the character whose first byte is b (0 for a
\* continuation byte, which starts no character).
LenUtf8(b) ==
    IF b < 128 THEN 1
    ELSE IF b < 192 THEN 0
    ELSE IF b < 224 THEN 2
    ELSE IF b < 240 THEN 3 ELSE 4

\* str::is_char_boundary
IsCharBoundary(s, off) ==
    off = 0 \/ off = Len(s) \/ (off < Len(s) /\ LenUtf8(s[off + 1]) # 0)

\* The scalar value of the character at byte offset off (0-based) of s.
CharAt(s, off) ==
    LET b == s[off + 1] IN
    IF LenUtf8(b) = 1 THEN b
    ELSE IF LenUtf8(b) = 2 THEN (b - 192) * 64 + (s[off + 2] - 128)
    ELSE IF LenUtf8(b) = 3
         THEN (b - 224) * 4096 + (s[off + 2] - 128) * 64 + (s[off + 3] - 128)
    ELSE (b - 240) * 262144 + (s[off + 2] - 128) * 4096
         + (s[off + 3] - 128) * 64 + (s[off + 4] - 128)

---------------------------------------------------------------------------
(* The grammar IR: enum Term of the grammar! macro *)

Node(op) == [op |-> op, str |-> <<>>, lo |-> 0, hi |-> 0, icase |-> FALSE,
             name |-> "", terms |-> <<>>]

AnyChar == Node("AnyChar")
EOI == Node("EOI")
Literal(s, icase) == [Node("Literal") EXCEPT !.str = s, !.icase = icase]
RangeTerm(lo, hi, icase) == [Node("Range") EXCEPT !.lo = lo, !.hi = hi, !.icase = icase]
Rule(ident) == [Node("Rule") EXCEPT !.name = ident]
Capture(tag, t) == [Node("Capture") EXCEPT !.name = tag, !.terms = <<t>>]
Choice(ts) == [Node("Choice") EXCEPT !.terms = ts]
Sequence(ts) == [Node("Sequence") EXCEPT !.terms = ts]
Optional(t) == [Node("Optional") EXCEPT !.terms = <<t>>]
Star(t) == [Node("Star") EXCEPT !.terms = <<t>>]
Plus(t) == [Node("Plus") EXCEPT !.terms = <<t>>]
NegLookahead(t) == [Node("NegLookahead") EXCEPT !.terms = <<t>>]
PosLookahead(t) == [Node("PosLookahead") EXCEPT !.terms = <<t>>]

\* Surface syntax: "..." and "..."i, 'a'..'z' and 'a'..'z'i (parse_atom, parse_range)
Lit(s) == Literal(Str(s), FALSE)
LitI(s) == Literal(Str(s), TRUE)
Range(lo, hi) == RangeTerm(Ord(lo), Ord(hi), FALSE)
RangeI(lo, hi) == RangeTerm(Ord(lo), Ord(hi), TRUE)

\* set_icase reaching the rule's expression and its direct operands only.
set_icase_one_level(t) ==
    IF t.op \in {"Literal", "Range"} THEN [t EXCEPT !.icase = TRUE]
    ELSE IF t.op \in {"AnyChar", "EOI", "Rule"} THEN t
    ELSE [t EXCEPT !.terms = [i \in 1..Len(t.terms) |->
            IF t.terms[i].op \in {"Literal", "Range"}
            THEN [t.terms[i] EXCEPT !.icase = TRUE] ELSE t.terms[i]]]

\* Term::set_icase: Literal and Range become case-insensitive, the flag is
\* pushed through every combinator, and Rule, AnyChar and EOI are left alone.
RECURSIVE set_icase(_)
set_icase(t) ==
    IF t.op \in {"Literal", "Range"} THEN [t EXCEPT !.icase = TRUE]
    ELSE IF t.op \in {"AnyChar", "EOI", "Rule"} THEN t
    ELSE [t EXCEPT !.terms = [i \in 1..Len(t.terms) |-> set_icase(t.terms[i])]]

---------------------------------------------------------------------------
(* The script grammar: mod grammar of labels/parse.rs.  Each rule is the   *)
(* parsed expression and whether the rule is declared @icase.              *)

g_program ==
    Sequence(<<Optional(Sequence(<<Rule("line"),
      Star(Sequence(<<Lit(<<"\n">>), Rule("line")>>))>>)), EOI>>)

g_line ==
    Choice(<<Rule("label_line"), Rule("statement"), Rule("text")>>)

g_statement ==
    Choice(<<Sequence(<<Plus(Rule("movement")),
      Optional(Rule("command"))>>), Rule("command")>>)

g_movement ==
    Sequence(<<Choice(<<Lit(<<"/">>), Lit(<<"?">>)>>), Rule("s"),
      Rule("direction")>>)

g_text ==
    Sequence(<<NegLookahead(Choice(<<Lit(<<"#">>), Lit(<<"/">>),
      Lit(<<"?">>)>>)), Star(Sequence(<<NegLookahead(Lit(<<"\n">>)),
      AnyChar>>))>>)

g_label_line ==
    Sequence(<<Lit(<<":">>), Rule("label"), Rule("eol")>>)

g_command ==
    Sequence(<<Lit(<<"#">>), Rule("bare_command")>>)

g_bare_command ==
    Choice(<<Rule("bare_compound_command"), Rule("bare_simple_command")>>)

g_bare_compound_command ==
    Sequence(<<Choice(<<Sequence(<<Choice(<<Lit(<<"g","i","v","e">>),
      Lit(<<"t","a","k","e">>)>>), Rule("sp"), Rule("counter"),
      Rule("sp"), Rule("value")>>), Sequence(<<Lit(<<"i","f">>),
      Rule("sp"), Rule("condition")>>), Sequence(<<Lit(<<"t","r","y">>),
      Rule("sp"), Rule("direction")>>)>>), Rule("s"),
      Choice(<<Rule("statement"), Rule("bare_command"), Rule("eol")>>)>>)

g_bare_simple_command ==
    Sequence(<<Choice(<<Sequence(<<PosLookahead(Range("b", "c")),
      Choice(<<Sequence(<<Lit(<<"b","e","c","o","m","e">>), Rule("sp"),
      Rule("kind")>>), Sequence(<<Lit(<<"b","i","n","d">>), Rule("sp"),
      Rule("word")>>), Sequence(<<Lit(<<"c","h","a","n","g","e">>),
      Rule("sp"), Rule("kind"), Rule("sp"), Rule("kind")>>),
      Sequence(<<Lit(<<"c","h","a","r">>), Rule("sp"), Rule("value")>>),
      Sequence(<<Lit(<<"c","l","e","a","r">>), Rule("sp"),
      Rule("word")>>), Sequence(<<Lit(<<"c","y","c","l","e">>),
      Rule("sp"), Rule("value")>>)>>)>>),
      Sequence(<<PosLookahead(Range("d", "l")),
      Choice(<<Sequence(<<Lit(<<"d","i","e">>), Rule("eow")>>),
      Sequence(<<Lit(<<"e","n","d">>), Optional(Lit(<<"g","a","m","e">>)),
      Rule("eow")>>), Sequence(<<Lit(<<"g","o">>), Rule("sp"),
      Rule("direction")>>), Sequence(<<Lit(<<"i","d","l","e">>),
      Rule("eow")>>), Sequence(<<Lit(<<"l","o","c","k">>),
      Rule("eow")>>)>>)>>), Sequence(<<PosLookahead(Range("p", "s")),
      Choice(<<Sequence(<<Lit(<<"p","l","a","y">>), Rule("eow"),
      Star(Sequence(<<NegLookahead(Lit(<<"\n">>)), AnyChar>>))>>),
      Sequence(<<Lit(<<"p","u","t">>), Rule("sp"), Rule("direction"),
      Rule("sp"), Rule("kind")>>),
      Sequence(<<Lit(<<"r","e","s","t","a","r","t">>), Rule("eow")>>),
      Sequence(<<Lit(<<"r","e","s","t","o","r","e">>), Rule("sp"),
      Rule("message")>>), Sequence(<<Lit(<<"s","e","n","d">>), Rule("sp"),
      Rule("message")>>), Sequence(<<Lit(<<"s","e","t">>), Rule("sp"),
      Rule("word")>>), Sequence(<<Lit(<<"s","h","o","o","t">>),
      Rule("sp"), Rule("direction")>>)>>)>>),
      Sequence(<<PosLookahead(Range("t", "z")),
      Choice(<<Sequence(<<Lit(<<"t","h","r","o","w","s","t","a","r">>),
      Rule("sp"), Rule("direction")>>),
      Sequence(<<Lit(<<"u","n","l","o","c","k">>), Rule("eow")>>),
      Sequence(<<Lit(<<"w","a","l","k">>), Rule("sp"),
      Rule("direction")>>), Sequence(<<Lit(<<"z","a","p">>), Rule("sp"),
      Rule("message")>>)>>)>>), Rule("message")>>), Rule("warn_trailing"),
      Rule("eol")>>)

g_color ==
    Sequence(<<Choice(<<Lit(<<"b","l","u","e">>),
      Lit(<<"g","r","e","e","n">>), Lit(<<"c","y","a","n">>),
      Lit(<<"r","e","d">>), Lit(<<"p","u","r","p","l","e">>),
      Lit(<<"y","e","l","l","o","w">>), Lit(<<"w","h","i","t","e">>)>>),
      Rule("eow")>>)

g_condition ==
    Sequence(<<Star(Sequence(<<LitI(<<"n","o","t">>), Rule("sp")>>)),
      Rule("base_condition")>>)

g_base_condition ==
    Choice(<<Sequence(<<Lit(<<"a","l","l","i","g","n","e","d">>),
      Rule("eow")>>), Sequence(<<Lit(<<"a","n","y">>), Rule("sp"),
      Rule("kind")>>), Sequence(<<Lit(<<"b","l","o","c","k","e","d">>),
      Rule("sp"), Rule("direction")>>),
      Sequence(<<Lit(<<"c","o","n","t","a","c","t">>), Rule("eow")>>),
      Sequence(<<Lit(<<"e","n","e","r","g","i","z","e","d">>),
      Rule("eow")>>), Rule("word")>>)

g_counter ==
    Sequence(<<Choice(<<Lit(<<"a","m","m","o">>),
      Lit(<<"g","e","m","s">>), Lit(<<"h","e","a","l","t","h">>),
      Lit(<<"s","c","o","r","e">>), Lit(<<"t","i","m","e">>),
      Lit(<<"t","o","r","c","h","e","s">>)>>), Rule("eow")>>)

g_direction ==
    Sequence(<<Star(Sequence(<<Rule("direction_modifier"), Rule("sp")>>)),
      Rule("base_direction")>>)

g_direction_modifier ==
    Sequence(<<Choice(<<Lit(<<"c","w">>), Lit(<<"c","c","w">>),
      Lit(<<"o","p","p">>), Lit(<<"r","n","d","p">>)>>), Rule("eow")>>)

g_base_direction ==
    Sequence(<<Choice(<<Lit(<<"f","l","o","w">>),
      Sequence(<<Lit(<<"r","n","d">>), Optional(Choice(<<Lit(<<"n","e">>),
      Lit(<<"n","s">>)>>))>>), Lit(<<"s","e","e","k">>),
      Lit(<<"n","o","r","t","h">>), Lit(<<"s","o","u","t","h">>),
      Lit(<<"e","a","s","t">>), Lit(<<"w","e","s","t">>),
      Lit(<<"i","d","l","e">>), Lit(<<"n">>), Lit(<<"s">>), Lit(<<"e">>),
      Lit(<<"w">>), Lit(<<"i">>)>>), Rule("eow")>>)

g_label ==
    Capture("Label", Sequence(<<Optional(Rule("namespace")),
      Choice(<<Rule("label_name"), Capture("Anon", Lit(<<"@">>))>>)>>))

g_namespace ==
    Sequence(<<Capture("Namespace", Rule("label_word")), Lit(<<"~">>)>>)

g_label_name ==
    Choice(<<Rule("label_local"), Sequence(<<Rule("label_global"),
      Optional(Rule("label_local"))>>)>>)

g_label_global ==
    Capture("Global", Rule("label_word"))

g_label_local ==
    Sequence(<<Lit(<<".">>), Capture("Local", Rule("label_word"))>>)

g_label_word ==
    Plus(Rule("word_char"))

g_message ==
    Capture("Reference", Sequence(<<Optional(Rule("recipient")),
      Capture("Label", Rule("message_name"))>>))

g_recipient ==
    Sequence(<<Capture("Recipient", Rule("word")), Lit(<<":">>)>>)

g_message_name ==
    Sequence(<<Optional(Rule("namespace")), Choice(<<Rule("label_name"),
      Capture("Anon", Rule("anon_message"))>>)>>)

g_anon_message ==
    Sequence(<<Lit(<<"@">>), Choice(<<Lit(<<"b">>), Lit(<<"f">>)>>)>>)

g_kind ==
    Sequence(<<Optional(Sequence(<<Rule("color"), Rule("sp")>>)),
      Rule("base_kind")>>)

g_base_kind ==
    Sequence(<<Choice(<<Sequence(<<PosLookahead(Range("a", "b")),
      Choice(<<Lit(<<"a","m","m","o">>), Lit(<<"b","e","a","r">>),
      Lit(<<"b","l","i","n","k","w","a","l","l">>),
      Lit(<<"b","o","m","b">>), Lit(<<"b","o","u","l","d","e","r">>),
      Lit(<<"b","r","e","a","k","a","b","l","e">>),
      Lit(<<"b","u","l","l","e","t">>)>>)>>),
      Sequence(<<PosLookahead(Range("c", "e")),
      Choice(<<Lit(<<"c","l","o","c","k","w","i","s","e">>),
      Lit(<<"c","o","u","n","t","e","r">>), Lit(<<"d","o","o","r">>),
      Lit(<<"d","u","p","l","i","c","a","t","o","r">>),
      Lit(<<"e","m","p","t","y">>),
      Lit(<<"e","n","e","r","g","i","z","e","r">>)>>)>>),
      Sequence(<<PosLookahead(Range("f", "k")),
      Choice(<<Lit(<<"f","a","k","e">>), Lit(<<"f","o","r","e","s","t">>),
      Lit(<<"g","e","m">>), Lit(<<"h","e","a","d">>),
      Lit(<<"i","n","v","i","s","i","b","l","e">>),
      Lit(<<"k","e","y">>)>>)>>), Sequence(<<PosLookahead(Range("l",
      "o")), Choice(<<Lit(<<"l","i","n","e">>), Lit(<<"l","i","o","n">>),
      Lit(<<"m","o","n","i","t","o","r">>),
      Lit(<<"n","o","r","m","a","l">>),
      Lit(<<"o","b","j","e","c","t">>)>>)>>),
      Sequence(<<PosLookahead(Range("p", "r")),
      Choice(<<Lit(<<"p","a","s","s","a","g","e">>),
      Lit(<<"p","l","a","y","e","r">>), Lit(<<"p","u","s","h","e","r">>),
      Lit(<<"r","i","c","o","c","h","e","t">>),
      Lit(<<"r","u","f","f","i","a","n">>)>>)>>),
      Sequence(<<PosLookahead(Lit(<<"s">>)),
      Choice(<<Lit(<<"s","c","r","o","l","l">>),
      Lit(<<"s","e","g","m","e","n","t">>), Lit(<<"s","h","a","r","k">>),
      Sequence(<<Lit(<<"s","l","i","d","e","r">>),
      Choice(<<Lit(<<"e","w">>), Lit(<<"n","s">>)>>)>>),
      Lit(<<"s","l","i","m","e">>), Lit(<<"s","o","l","i","d">>),
      Lit(<<"s","p","i","n","n","i","n","g","g","u","n">>),
      Lit(<<"s","t","a","r">>)>>)>>), Sequence(<<PosLookahead(Range("t",
      "w")), Choice(<<Lit(<<"t","i","g","e","r">>),
      Lit(<<"t","o","r","c","h">>),
      Lit(<<"t","r","a","n","s","p","o","r","t","e","r">>),
      Lit(<<"w","a","t","e","r">>)>>)>>)>>), Rule("eow")>>)

g_warn_trailing ==
    Optional(Capture("WarnTrailing",
      Plus(Sequence(<<NegLookahead(Rule("eol")), AnyChar>>))))

g_eol ==
    PosLookahead(Choice(<<Lit(<<"\n">>), EOI>>))

g_eow ==
    NegLookahead(Choice(<<RangeI("a", "z"), Range("0", "9"),
      Lit(<<"_">>)>>))

g_s ==
    Star(Lit(<<" ">>))

g_sp ==
    Plus(Lit(<<" ">>))

g_value ==
    Plus(Range("0", "9"))

g_word ==
    Sequence(<<NegLookahead(Range("0", "9")), Plus(Rule("word_char"))>>)

g_word_char ==
    Choice(<<RangeI("a", "z"), Range("0", "9"), Lit(<<"_">>)>>)

\* The rules as written, by name.
Rules ==
    [program |-> [icase |-> FALSE, definition |-> g_program],
     line |-> [icase |-> FALSE, definition |-> g_line],
     statement |-> [icase |-> FALSE, definition |-> g_statement],
     movement |-> [icase |-> FALSE, definition |-> g_movement],
     text |-> [icase |-> FALSE, definition |-> g_text],
     label_line |-> [icase |-> FALSE, definition |-> g_label_line],
     command |-> [icase |-> FALSE, definition |-> g_command],
     bare_command |-> [icase |-> FALSE, definition |-> g_bare_command],
     bare_compound_command |-> [icase |-> TRUE, definition |-> g_bare_compound_command],
     bare_simple_command |-> [icase |-> TRUE, definition |-> g_bare_simple_command],
     color |-> [icase |-> TRUE, definition |-> g_color],
     condition |-> [icase |-> FALSE, definition |-> g_condition],
     base_condition |-> [icase |-> TRUE, definition |-> g_base_condition],
     counter |-> [icase |-> FALSE, definition |-> g_counter],
     direction |-> [icase |-> FALSE, definition |-> g_direction],
     direction_modifier |-> [icase |-> TRUE, definition |-> g_direction_modifier],
     base_direction |-> [icase |-> TRUE, definition |-> g_base_direction],
     label |-> [icase |-> FALSE, definition |-> g_label],
     namespace |-> [icase |-> FALSE, definition |-> g_namespace],
     label_name |-> [icase |-> FALSE, definition |-> g_label_name],
     label_global |-> [icase |-> FALSE, definition |-> g_label_global],
     label_local |-> [icase |-> FALSE, definition |-> g_label_local],
     label_word |-> [icase |-> FALSE, definition |-> g_label_word],
     message |-> [icase |-> FALSE, definition |-> g_message],
     recipient |-> [icase |-> FALSE, definition |-> g_recipient],
     message_name |-> [icase |-> FALSE, definition |-> g_message_name],
     anon_message |-> [icase |-> FALSE, definition |-> g_anon_message],
     kind |-> [icase |-> FALSE, definition |-> g_kind],
     base_kind |-> [icase |-> TRUE, definition |-> g_base_kind],
     warn_trailing |-> [icase |-> FALSE, definition |-> g_warn_trailing],
     eol |-> [icase |-> FALSE, definition |-> g_eol],
     eow |-> [icase |-> FALSE, definition |-> g_eow],
     s |-> [icase |-> FALSE, definition |-> g_s],
     sp |-> [icase |-> FALSE, definition |-> g_sp],
     value |-> [icase |-> FALSE, definition |-> g_value],
     word |-> [icase |-> FALSE, definition |-> g_word],
     word_char |-> [icase |-> FALSE, definition |-> g_word_char]]

\* Rule::parse: an @icase rule's definition has set_icase applied once, at
\* build time; the result is the expression the rule's function runs.
RuleDefinition(rule) ==
    IF rule.icase THEN set_icase(rule.definition) ELSE rule.definition

Build(rules) == [name \in DOMAIN rules |-> RuleDefinition(rules[name])]

\* The grammar of the parser's own tests (mod tests of peg/peg.rs).  Its
\* rule `line` is named csv_line here, the script grammar having a `line`.
TestRules ==
    [fake_csv |-> [icase |-> FALSE, definition |->
        Sequence(<<Rule("csv_line"), Lit(<<"\n">>), Rule("csv_line"), EOI>>)],
     csv_line |-> [icase |-> FALSE, definition |->
        Sequence(<<Rule("item"), Lit(<<",">>), Rule("item")>>)],
     item |-> [icase |-> FALSE, definition |->
        Choice(<<Lit(<<"f","o","o">>), Lit(<<"b","a","r">>)>>)],
     option |-> [icase |-> FALSE, definition |->
        Sequence(<<Lit(<<"(">>), Optional(Lit(<<"x">>)), Lit(<<")">>)>>)],
     plus |-> [icase |-> FALSE, definition |->
        Sequence(<<Lit(<<"(">>), Plus(Lit(<<"x">>)), Lit(<<")">>)>>)],
     star |-> [icase |-> FALSE, definition |->
        Sequence(<<Lit(<<"(">>), Star(Lit(<<"x">>)), Lit(<<")">>)>>)],
     dq |-> [icase |-> FALSE, definition |-> Lit(<<"\"">>)],
     quoted |-> [icase |-> FALSE, definition |->
        Sequence(<<Rule("dq"),
          Star(Choice(<<Sequence(<<Lit(<<"\\">>), AnyChar>>),
                        Sequence(<<NegLookahead(Rule("dq")), AnyChar>>)>>)),
          Rule("dq")>>)],
     case_sensitivity |-> [icase |-> FALSE, definition |->
        Sequence(<<Lit(<<"S","t","r","i","c","t"," ">>), Plus(Range("a", "z")),
          LitI(<<",", " ","l","o","o","s","e"," ">>), Plus(RangeI("a", "z"))>>)],
     long_icase_str |-> [icase |-> FALSE, definition |->
        LitI(<<"f","o","o"," ","b","a","r"," ","b","a","z">>)],
     hex_config |-> [icase |-> TRUE, definition |->
        Sequence(<<Lit(<<"l","e","t"," ">>), Rule("var_name"),
          Lit(<<" ","="," ","0","x">>),
          Plus(Choice(<<Range("a", "f"), Range("0", "9")>>))>>)],
     var_name |-> [icase |-> FALSE, definition |->
        Choice(<<Lit(<<"f","o","o">>), Lit(<<"b","a","r">>)>>)],
     email |-> [icase |-> FALSE, definition |->
        Capture("Email", Sequence(<<Capture("User", Rule("user")), Lit(<<"@">>),
          Capture("Domain", Rule("domain"))>>))],
     user |-> [icase |-> FALSE, definition |-> Plus(RangeI("a", "z"))],
     domain |-> [icase |-> FALSE, definition |->
        Sequence(<<Plus(Rule("user")),
          Plus(Sequence(<<Lit(<<".">>), Rule("user")>>))>>)]]

\* Two more rules the tests are run on: lookaheads over an expression that
\* commits a capture.
\*   peek = &(#Seen:"a" ANY) "a";   refuse = !(#Seen:"a" "b") ANY;
LookaheadRules ==
    [peek |-> [icase |-> FALSE, definition |->
        Sequence(<<PosLookahead(Sequence(<<Capture("Seen", Lit(<<"a">>)), AnyChar>>)),
          Lit(<<"a">>)>>)],
     refuse |-> [icase |-> FALSE, definition |->
        Sequence(<<NegLookahead(Sequence(<<Capture("Seen", Lit(<<"a">>)),
          Lit(<<"b">>)>>)), AnyChar>>)]]

AllRules == Rules @@ TestRules @@ LookaheadRules

\* The expression each rule's function runs.
Grammar == Build(AllRules)

\* The sub-term of a rule's expression at a path of child indexes.
RECURSIVE SubTerm(_, _)
SubTerm(t, path) ==
    IF path = <<>> THEN t ELSE SubTerm(t.terms[Head(path)], Tail(path))

TermAt(rule, path) == SubTerm(Grammar[rule], path)

---------------------------------------------------------------------------
(* ParseState and the LowLevel primitives (peg/peg.rs) *)

Min(a, b) == IF a < b THEN a ELSE b

\* begin_capture's RawCapture { kind, span: 0..0, subtree_len: None }.
\* Option<NonZero<usize>> is modelled by the number, None being 0.
PendingCapture(tag) == [kind |-> tag, start |-> 0, end |-> 0, subtree_len |-> 0]

\* LowLevel::save
save == [offset |-> offset, captures_len |-> Len(captures)]

\* A restore that rewinds the cursor and forgets to truncate the buffer.
restore_offset_only(sp) ==
    [offset |-> sp.offset, captures |-> captures]

\* LowLevel::restore: the offset and the (truncated) capture buffer after it.
restore(sp) ==
    [offset |-> sp.offset,
     captures |-> SubSeq(captures, 1, Min(sp.captures_len, Len(captures)))]

\* LowLevel::begin_capture: the savepoint it returns and the buffer after the push.
begin_capture(tag) ==
    [save |-> save, captures |-> Append(captures, PendingCapture(tag))]

\* commit_capture's indexing and assertion: the capture at start.captures_len
\* exists and is still pending.
commit_capture_ok(start) ==
    /\ start.captures_len < Len(captures)
    /\ captures[start.captures_len + 1].subtree_len = 0

\* A commit_capture that records the span and leaves subtree_len unset.
commit_capture_span_only(start) ==
    [captures EXCEPT ![start.captures_len + 1] =
        [@ EXCEPT !.start = start.offset, !.end = offset]]

\* A commit_capture that fills in the capture pushed last, not the one
\* the savepoint names.
commit_capture_last_pushed(start) ==
    [captures EXCEPT ![Len(captures)] =
        [@ EXCEPT !.start = start.offset,
                  !.end = offset,
                  !.subtree_len = 1]]

\* LowLevel::commit_capture: the buffer after the pending capture is filled in.
commit_capture(start) ==
    LET index == start.captures_len IN
    [captures EXCEPT ![index + 1] =
        [@ EXCEPT !.start = start.offset,
                  !.end = offset,
                  !.subtree_len = Len(captures) - index]]

\* LowLevel::any
any ==
    IF offset < Len(input)
    THEN [ok |-> TRUE, offset |-> offset + LenUtf8(input[offset + 1])]
    ELSE [ok |-> FALSE, offset |-> offset]

\* LowLevel::eoi
eoi == offset >= Len(input)

\* LowLevel::literal: input[offset..].starts_with(s)
literal(s) ==
    IF /\ offset + Len(s) <= Len(input)
       /\ SubSeq(input, offset + 1, offset + Len(s)) = s
    THEN [ok |-> TRUE, offset |-> offset + Len(s)]
    ELSE [ok |-> FALSE, offset |-> offset]

\* literal_i slices input[offset .. offset + s.len()] once the end is in
\* range; slicing a str panics when an end of the slice is inside a character.
literal_i_panics(s) ==
    /\ offset + Len(s) <= Len(input)
    /\ ~IsCharBoundary(input, offset + Len(s))

\* LowLevel::literal_i
literal_i(s) ==
    IF /\ offset + Len(s) <= Len(input)
       /\ EqIgnoreAsciiCase(SubSeq(input, offset + 1, offset + Len(s)), s)
    THEN [ok |-> TRUE, offset |-> offset + Len(s)]
    ELSE [ok |-> FALSE, offset |-> offset]

\* LowLevel::range
range(lo, hi) ==
    IF /\ offset < Len(input)
       /\ CharAt(input, offset) >= lo
       /\ CharAt(input, offset) <= hi
    THEN [ok |-> TRUE, offset |-> offset + LenUtf8(input[offset + 1])]
    ELSE [ok |-> FALSE, offset |-> offset]

\* LowLevel::range_i
range_i(lo, hi) ==
    LET next == CharAt(input, offset)
        low == IF next < 128 THEN ToAsciiLowercase(next) ELSE next
        up == IF next < 128 THEN ToAsciiUppercase(next) ELSE next
    IN
    IF /\ offset < Len(input)
       /\ \/ (low >= lo /\ low <= hi)
          \/ (up >= lo /\ up <= hi)
    THEN [ok |-> TRUE, offset |-> offset + LenUtf8(input[offset + 1])]
    ELSE [ok |-> FALSE, offset |-> offset]

---------------------------------------------------------------------------
(* The generated rule functions (Term::generate_code), run one term at a   *)
(* time.  A frame is one term of one rule being evaluated: pc is "enter"   *)
(* before its code has run and "wait" while a sub-term runs; i is the      *)
(* sub-term (or iteration) being waited for; save is the `let save` of the *)
(* emitted block.  entry records the state the term was entered in.        *)

NoSave == [offset |-> 0, captures_len |-> 0]

Frame(rule, path, off, caps) ==
    [rule |-> rule, path |-> path, pc |-> "enter", i |-> 0, save |-> NoSave,
     entry |-> [offset |-> off, captures |-> caps]]

NoFrame ==
    [rule |-> "", path |-> <<>>, op |-> "",
     entry |-> [offset |-> 0, captures |-> <<>>],
     before |-> [offset |-> 0, captures |-> <<>>]]

Top == stack[Len(stack)]
TopTerm == TermAt(Top.rule, Top.path)

\* The parser is running and the term on top of the stack is either about
\* to run (no sub-term has returned to it) or has a sub-term's result.
Running ==
    /\ pc \in {"parse", "test"}
    /\ stack # <<>>
    /\ ret \in {"none", "true", "false"}
    /\ (Top.pc = "enter") = (ret = "none")

BoolRet(b) == IF b THEN "true" ELSE "false"

\* The top term t returns b, leaving the cursor at off and the buffer as
\* caps.  last remembers the term, the state it was entered in and the
\* state its code had reached just before it returned.
Return(t, b, off, caps) ==
    /\ stack' = SubSeq(stack, 1, Len(stack) - 1)
    /\ ret' = BoolRet(b)
    /\ last' = [rule |-> Top.rule, path |-> Top.path, op |-> t.op,
                entry |-> Top.entry,
                before |-> [offset |-> offset, captures |-> captures]]
    /\ offset' = off
    /\ captures' = caps
    /\ UNCHANGED <<input, pc, board, pipeVars, hist, regVars, libVars>>

\* The top term (its frame updated to f) evaluates its sub-term number k.
Eval(f, k, caps) ==
    /\ stack' = Append([stack EXCEPT ![Len(stack)] = [f EXCEPT !.pc = "wait"]],
                       Frame(Top.rule, Append(Top.path, k), offset, caps))
    /\ ret' = "none"
    /\ captures' = caps
    /\ UNCHANGED <<input, offset, last, pc, board, pipeVars, hist, regVars, libVars>>

\* A panic (a failed assertion, a slice off a character boundary) unwinds.
Panic ==
    /\ ret' = "panic"
    /\ UNCHANGED <<input, offset, captures, stack, last, pc, board, pipeVars, hist, regVars, libVars>>

\* Term::AnyChar: p.any()
AnyCharCode(t) ==
    /\ t.op = "AnyChar"
    /\ Return(t, any.ok, any.offset, captures)

StepAnyChar == Running /\ \E t \in {TopTerm} : AnyCharCode(t)

\* Term::EOI: p.eoi()
EOICode(t) ==
    /\ t.op = "EOI"
    /\ Return(t, eoi, offset, captures)

StepEOI == Running /\ \E t \in {TopTerm} : EOICode(t)

\* Term::Literal: p.literal(s) or p.literal_i(s)
LiteralCode(t) ==
    /\ t.op = "Literal"
    /\ LET r == IF t.icase THEN literal_i(t.str) ELSE literal(t.str)
       IN IF t.icase /\ literal_i_panics(t.str)
          THEN Panic
          ELSE Return(t, r.ok, r.offset, captures)

StepLiteral == Running /\ \E t \in {TopTerm} : LiteralCode(t)

\* Term::Range: p.range(lo..=hi) or p.range_i(lo..=hi)
RangeCode(t) ==
    /\ t.op = "Range"
    /\ LET r == IF t.icase THEN range_i(t.lo, t.hi) ELSE range(t.lo, t.hi)
       IN Return(t, r.ok, r.offset, captures)

StepRange == Running /\ \E t \in {TopTerm} : RangeCode(t)

\* Term::Rule: ident(p), a call of the rule's function
RuleCode(t) ==
    /\ t.op = "Rule"
    /\ IF Top.pc = "enter"
       THEN /\ stack' = Append([stack EXCEPT ![Len(stack)].pc = "wait"],
                               Frame(t.name, <<>>, offset, captures))
            /\ ret' = "none"
            /\ UNCHANGED <<input, offset, captures, last, pc, board, pipeVars,
                           hist, regVars, libVars>>
       ELSE Return(t, ret = "true", offset, captures)

StepRule == Running /\ \E t \in {TopTerm} : RuleCode(t)

\* Term::Capture
CaptureCode(t) ==
    /\ t.op = "Capture"
    /\ IF Top.pc = "enter"
       THEN LET b == begin_capture(t.name)
            IN Eval([Top EXCEPT !.save = b.save], 1, b.captures)
       ELSE IF ret = "false"
       THEN Return(t, FALSE, restore(Top.save).offset, restore(Top.save).captures)
       ELSE IF commit_capture_ok(Top.save)
       THEN Return(t, TRUE, offset, commit_capture(Top.save))
       ELSE Panic

StepCapture == Running /\ \E t \in {TopTerm} : CaptureCode(t)

\* Term::Sequence: save; x && y && ...; restore on failure
SequenceCode(t) ==
    /\ t.op = "Sequence"
    /\ IF Top.pc = "enter"
       THEN Eval([Top EXCEPT !.save = save, !.i = 1], 1, captures)
       ELSE IF ret = "false"
       THEN Return(t, FALSE, restore(Top.save).offset, restore(Top.save).captures)
       ELSE IF Top.i < Len(t.terms)
       THEN Eval([Top EXCEPT !.i = @ + 1], Top.i + 1, captures)
       ELSE Return(t, TRUE, offset, captures)

StepSequence == Running /\ \E t \in {TopTerm} : SequenceCode(t)

\* Term::Choice: ( x || y || ... )
ChoiceCode(t) ==
    /\ t.op = "Choice"
    /\ IF Top.pc = "enter"
       THEN Eval([Top EXCEPT !.i = 1], 1, captures)
       ELSE IF ret = "true"
       THEN Return(t, TRUE, offset, captures)
       ELSE IF Top.i < Len(t.terms)
       THEN Eval([Top EXCEPT !.i = @ + 1], Top.i + 1, captures)
       ELSE Return(t, FALSE, offset, captures)

StepChoice == Running /\ \E t \in {TopTerm} : ChoiceCode(t)

\* Term::Optional: ( x || true )
OptionalCode(t) ==
    /\ t.op = "Optional"
    /\ IF Top.pc = "enter"
       THEN Eval(Top, 1, captures)
       ELSE Return(t, TRUE, offset, captures)

StepOptional == Running /\ \E t \in {TopTerm} : OptionalCode(t)

\* Term::Star: { while x {}; true }
StarCode(t) ==
    /\ t.op = "Star"
    /\ IF Top.pc = "enter" \/ ret = "true"
       THEN Eval(Top, 1, captures)
       ELSE Return(t, TRUE, offset, captures)

StepStar == Running /\ \E t \in {TopTerm} : StarCode(t)

\* Term::Plus: if closure() { while closure() {} true } else { false }
PlusCode(t) ==
    /\ t.op = "Plus"
    /\ IF Top.pc = "enter"
       THEN Eval([Top EXCEPT !.i = 1], 1, captures)
       ELSE IF ret = "true"
       THEN Eval([Top EXCEPT !.i = 2], 1, captures)
       ELSE Return(t, Top.i = 2, offset, captures)

StepPlus == Running /\ \E t \in {TopTerm} : PlusCode(t)

\* Term::NegLookahead
NegLookaheadCode(t) ==
    /\ t.op = "NegLookahead"
    /\ IF Top.pc = "enter"
       THEN Eval([Top EXCEPT !.save = save], 1, captures)
       ELSE IF ret = "true"
       THEN Return(t, FALSE, restore(Top.save).offset, restore(Top.save).captures)
       ELSE Return(t, TRUE, offset, captures)

StepNegLookahead == Running /\ \E t \in {TopTerm} : NegLookaheadCode(t)

\* A positive lookahead that keeps what its expression consumed.
PosLookaheadCode_without_restore(t) ==
    /\ t.op = "PosLookahead"
    /\ IF Top.pc = "enter"
       THEN Eval([Top EXCEPT !.save = save], 1, captures)
       ELSE Return(t, ret = "true", offset, captures)

\* Term::PosLookahead
PosLookaheadCode(t) ==
    /\ t.op = "PosLookahead"
    /\ IF Top.pc = "enter"
       THEN Eval([Top EXCEPT !.save = save], 1, captures)
       ELSE IF ret = "true"
       THEN Return(t, TRUE, restore(Top.save).offset, restore(Top.save).captures)
       ELSE Return(t, FALSE, offset, captures)

StepPosLookahead == Running /\ \E t \in {TopTerm} : PosLookaheadCode(t)

---------------------------------------------------------------------------
(* The capture tree API (peg/peg.rs, Captures and Capture).  A capture is  *)
(* named by its 1-based index in the buffer; its subtree slice is          *)
(* caps[i .. i + subtree_len - 1].                                         *)

\* Captures::next panics on the head at idx of the slice ending at hi:
\* subtree_len.unwrap() on a pending capture, or a subtree slice out of range.
next_panics(caps, idx, hi) ==
    \/ caps[idx].subtree_len = 0
    \/ idx + caps[idx].subtree_len - 1 > hi

\* The items Captures yields over the slice caps[idx .. hi] (up to a panic).
RECURSIVE CapturesIter(_, _, _)
CapturesIter(caps, idx, hi) ==
    IF idx > hi \/ next_panics(caps, idx, hi) THEN <<>>
    ELSE <<idx>> \o CapturesIter(caps, idx + caps[idx].subtree_len, hi)

\* Whether iterating the slice caps[idx .. hi] to its end panics.
RECURSIVE IterPanics(_, _, _)
IterPanics(caps, idx, hi) ==
    /\ idx <= hi
    /\ \/ next_panics(caps, idx, hi)
       \/ IterPanics(caps, idx + caps[idx].subtree_len, hi)

\* ParseState::captures: the top-level captures.
TopCaptures(caps) == CapturesIter(caps, 1, Len(caps))

\* Capture::children: Captures over raw[1..] of the subtree slice.
children(caps, i) == CapturesIter(caps, i + 1, i + caps[i].subtree_len - 1)
children_panics(caps, i) == IterPanics(caps, i + 1, i + caps[i].subtree_len - 1)

\* Capture::span and Capture::text
span(caps, i) == [start |-> caps[i].start, end |-> caps[i].end]
text(s, caps, i) == SubSeq(s, caps[i].start + 1, caps[i].end)

\* ParseState::walk_captures: every capture of the buffer, in pre-order.
walk_captures(caps) == [i \in 1..Len(caps) |-> i]

\* Capture::walk_children: every descendant of the capture, in pre-order.
walk_children(caps, i) == [k \in 1..(caps[i].subtree_len - 1) |-> i + k]

---------------------------------------------------------------------------
(* The diagnostic context (error.rs).  A Context is its chain of           *)
(* ContextInfo values, root first; Option values are sequences of length   *)
(* 0 (None) or 1 (Some).                                                   *)

None == <<>>
Some(x) == <<x>>

\* An insert that overwrites a value already there.
insert_always(opt, v) == Some(v)

\* Option::get_or_insert
get_or_insert(opt, v) == IF opt = None THEN Some(v) ELSE opt

NoLocation == [file_path |-> None, board |-> None, stat |-> None, span |-> None]

with_file_path(ctx, s) == Append(ctx, [kind |-> "FilePath", value |-> s])
with_board(ctx, i) == Append(ctx, [kind |-> "Board", value |-> i])
with_stat(ctx, i) == Append(ctx, [kind |-> "Stat", value |-> i])
with_span(ctx, r) == Append(ctx, [kind |-> "Span", value |-> r])

\* Context::store: each scope from the emitting one up to the root fills the
\* fields still unset; the root pushes the message.  The sink after the call.
RECURSIVE store(_, _, _)
store(sink, ctx, message) ==
    IF ctx = <<>> THEN Append(sink, message)
    ELSE LET info == ctx[Len(ctx)]
             loc == message.location
             location ==
                 CASE info.kind = "FilePath" ->
                        [loc EXCEPT !.file_path = get_or_insert(@, info.value)]
                   [] info.kind = "Board" ->
                        [loc EXCEPT !.board = get_or_insert(@, info.value)]
                   [] info.kind = "Stat" ->
                        [loc EXCEPT !.stat = get_or_insert(@, info.value)]
                   [] info.kind = "Span" ->
                        [loc EXCEPT !.span = get_or_insert(@, info.value)]
         IN store(sink, SubSeq(ctx, 1, Len(ctx) - 1),
                  [message EXCEPT !.location = location])

\* Context::error and Context::warning
error(sink, ctx, msg) ==
    store(sink, ctx, [level |-> "Error", message |-> msg, location |-> NoLocation])
warning(sink, ctx, msg) ==
    store(sink, ctx, [level |-> "Warning", message |-> msg, location |-> NoLocation])

\* Context::any_errors: whether the sink holds an error-level message.
any_errors(sink) == \E i \in 1..Len(sink) : sink[i].level = "Error"

---------------------------------------------------------------------------
(* The chunked parse: parse_stat_labels (labels/parse.rs) *)

\* LabelName::default()
DefaultLabelName ==
    [namespace |-> None, name |-> <<>>, local |-> None,
     span |-> [start |-> 0, end |-> 0]]

\* Chunk::Verbatim and Chunk::Label
Verbatim(s) ==
    [kind |-> "Verbatim", text |-> s, is_ref |-> FALSE, is_anon |-> FALSE,
     name |-> DefaultLabelName]
LabelChunk(is_ref, is_anon, name) ==
    [kind |-> "Label", text |-> <<>>, is_ref |-> is_ref, is_anon |-> is_anon,
     name |-> name]

IsLabel(chunk) == chunk.kind = "Label"

\* The loop over walk_captures: one warning per WarnTrailing capture.
RECURSIVE warn_trailing_pass(_, _, _, _)
warn_trailing_pass(sink, ctx, caps, caplist) ==
    IF caplist = <<>> THEN sink
    ELSE LET cap == Head(caplist)
             sink1 == IF caps[cap].kind = "WarnTrailing"
                      THEN warning(sink, with_span(ctx, span(caps, cap)),
                                   "trailing characters at end of line")
                      ELSE sink
         IN warn_trailing_pass(sink1, ctx, caps, Tail(caplist))

\* cap.children().find(|c| c.kind() == Tag::Label): the child's index, 0 if none.
find_label_child(caps, cap) ==
    LET cs == children(caps, cap)
        ks == {k \in 1..Len(cs) : caps[cs[k]].kind = "Label"}
    IN IF ks = {} THEN 0
       ELSE cs[CHOOSE k \in ks : \A m \in ks : k <= m]

\* A recipient check that reports at the span of the whole reference.
check_recipient_at_reference(sink, ctx, caps, cap) ==
    LET ds == walk_children(caps, cap)
        anon == \E k \in 1..Len(ds) : caps[ds[k]].kind = "Anon"
        local == \E k \in 1..Len(ds) : caps[ds[k]].kind = "Local"
        rs == {k \in 1..Len(ds) : caps[ds[k]].kind = "Recipient"}
    IN IF rs = {} THEN sink
       ELSE IF anon
       THEN error(sink, with_span(ctx, span(caps, cap)),
                  "message targets not allowed for anonymous labels")
       ELSE IF local
       THEN error(sink, with_span(ctx, span(caps, cap)),
                  "message targets not supported for local labels")
       ELSE sink

\* The recipient check made for one Reference capture.
check_recipient(sink, ctx, caps, cap) ==
    LET ds == walk_children(caps, cap)
        anon == \E k \in 1..Len(ds) : caps[ds[k]].kind = "Anon"
        local == \E k \in 1..Len(ds) : caps[ds[k]].kind = "Local"
        rs == {k \in 1..Len(ds) : caps[ds[k]].kind = "Recipient"}
        recipient == ds[CHOOSE k \in rs : \A m \in rs : m <= k]
    IN IF rs = {} THEN sink
       ELSE IF anon
       THEN error(sink, with_span(ctx, span(caps, recipient)),
                  "message targets not allowed for anonymous labels")
       ELSE IF local
       THEN error(sink, with_span(ctx, span(caps, recipient)),
                  "message targets not supported for local labels")
       ELSE sink

\* The loop over parser.captures(): the (tag, #Label capture) pairs and the
\* sink after the recipient checks.
RECURSIVE label_captures(_, _, _, _)
label_captures(sink, ctx, caps, caplist) ==
    IF caplist = <<>> THEN [pairs |-> <<>>, sink |-> sink]
    ELSE LET cap == Head(caplist)
             kind == caps[cap].kind
             sink1 == IF kind = "Reference"
                      THEN check_recipient(sink, ctx, caps, cap)
                      ELSE sink
             rest == label_captures(sink1, ctx, caps, Tail(caplist))
             pair == IF kind = "Label" THEN <<[tag |-> "Label", cap |-> cap]>>
                     ELSE IF kind = "Reference"
                     THEN <<[tag |-> "Reference", cap |-> find_label_child(caps, cap)]>>
                     ELSE <<>>
         IN [pairs |-> pair \o rest.pairs, sink |-> rest.sink]

\* The loop over cap.children() filling in a LabelName and is_anon.
RECURSIVE label_parts(_, _, _, _)
label_parts(code, caps, cs, acc) ==
    IF cs = <<>> THEN acc
    ELSE LET child == Head(cs)
             kind == caps[child].kind
             txt == text(code, caps, child)
             acc1 ==
                 IF kind = "Namespace"
                 THEN [acc EXCEPT !.name.namespace = Some(txt)]
                 ELSE IF kind \in {"Anon", "Global"}
                 THEN [acc EXCEPT !.name.name = txt, !.is_anon = (kind = "Anon")]
                 ELSE IF kind = "Local"
                 THEN [acc EXCEPT !.name.local = Some(txt)]
                 ELSE [acc EXCEPT !.unreachable = TRUE]
         IN label_parts(code, caps, Tail(cs), acc1)

\* One (span, chunk) pair of span_chunks.
span_chunk(code, caps, pair) ==
    LET parts == label_parts(code, caps, children(caps, pair.cap),
                   [name |-> [DefaultLabelName EXCEPT !.span = span(caps, pair.cap)],
                    is_anon |-> FALSE, unreachable |-> FALSE])
    IN [span |-> span(caps, pair.cap),
        chunk |-> LabelChunk(pair.tag = "Reference", parts.is_anon, parts.name),
        unreachable |-> parts.unreachable]

\* A split that keeps the label chunks and drops the text around them.
split_labels_only(code, span_chunks, last_index) ==
    [k \in 1..Len(span_chunks) |-> span_chunks[k].chunk]

\* "Split code along #Label boundaries"
RECURSIVE split_code(_, _, _)
split_code(code, span_chunks, last_index) ==
    IF span_chunks = <<>>
    THEN IF last_index < Len(code)
         THEN <<Verbatim(SubSeq(code, last_index + 1, Len(code)))>>
         ELSE <<>>
    ELSE LET sc == Head(span_chunks)
             gap == IF last_index < sc.span.start
                    THEN <<Verbatim(SubSeq(code, last_index + 1, sc.span.start))>>
                    ELSE <<>>
         IN gap \o <<sc.chunk>> \o split_code(code, Tail(span_chunks), sc.span.end)

\* Whether parse_stat_labels panics: the assertion on grammar::program, a
\* capture iterator that panics, the unwrap of the Reference's Label child,
\* or unreachable!().
parse_stat_labels_panics(code, caps, parsed_ok) ==
    \/ ~parsed_ok
    \/ IterPanics(caps, 1, Len(caps))
    \/ \E k \in 1..Len(TopCaptures(caps)) :
         LET cap == TopCaptures(caps)[k] IN
         /\ caps[cap].kind = "Reference"
         /\ \/ children_panics(caps, cap)
            \/ find_label_child(caps, cap) = 0
    \/ LET lc == label_captures(<<>>, <<>>, caps, TopCaptures(caps)).pairs IN
       \E k \in 1..Len(lc) :
         \/ children_panics(caps, lc[k].cap)
         \/ span_chunk(code, caps, lc[k]).unreachable

\* parse_stat_labels, after grammar::program has run: the ParsedStat and the
\* sink after its warnings and errors.
parse_stat_labels(code, caps, sink, ctx) ==
    LET sink1 == warn_trailing_pass(sink, ctx, caps, walk_captures(caps))
        lc == label_captures(sink1, ctx, caps, TopCaptures(caps))
        span_chunks == [k \in 1..Len(lc.pairs) |-> span_chunk(code, caps, lc.pairs[k])]
    IN [chunks |-> split_code(code, span_chunks, 0), sink |-> lc.sink]

---------------------------------------------------------------------------
(* The label registry (labels/sanitize.rs) *)

Tilde == Ord("~")
Dot == Ord(".")
Dollar == Ord("$")
Underscore == Ord("_")
CharZero == Ord("0")
CharNine == Ord("9")
CharA == Ord("a")
CharZ == Ord("z")

\* A key that keeps the case of the label as written.
LabelId_as_written(label) ==
    (IF label.namespace # None THEN label.namespace[1] \o <<Tilde>> ELSE <<>>)
    \o label.name
    \o (IF label.local # None THEN <<Dot>> \o label.local[1] ELSE <<>>)

\* LabelId::new: [namespace "~"] name ["." local], in ASCII lowercase.
LabelId(label) ==
    LowerStr((IF label.namespace # None
              THEN label.namespace[1] \o <<Tilde>> ELSE <<>>)
             \o label.name
             \o (IF label.local # None
                 THEN <<Dot>> \o label.local[1] ELSE <<>>))

Preferred == [kind |-> "Preferred", suffix |-> <<>>]
FilteredWithSuffix(suffix) == [kind |-> "FilteredWithSuffix", suffix |-> suffix]

builtin_labels ==
    <<Str(<<"b","o","m","b","e","d">>), Str(<<"e","n","e","r","g","i","z","e">>),
      Str(<<"s","h","o","t">>), Str(<<"t","h","u","d">>),
      Str(<<"t","o","u","c","h">>)>>

\* A registry that starts without the builtin names.
Registry_without_builtins ==
    [label_transforms |-> <<>>, existing |-> {}, anonymous_counter |-> <<>>]

\* Registry::new.  anonymous_counter is the name generator's state.
Registry_new ==
    [label_transforms |->
        [id \in {builtin_labels[i] : i \in 1..Len(builtin_labels)} |-> Preferred],
     existing |-> {builtin_labels[i] : i \in 1..Len(builtin_labels)},
     anonymous_counter |-> <<>>]

\* Registry::preferred_name
preferred_name(label) ==
    IF label.local # None THEN label.local[1] ELSE label.name

\* Registry::is_valid_label
is_valid_label(s) ==
    /\ Len(s) # 0
    /\ \A i \in 1..(Len(s) - 1) : s[i] = Underscore \/ IsAsciiAlphabetic(s[i])
    /\ \/ s[Len(s)] = Underscore
       \/ IsAsciiAlphabetic(s[Len(s)])
       \/ IsAsciiDigit(s[Len(s)])

\* A filter that lets every character through.
filter_nothing(s) == s

\* A filter that counts an underscore as part of the run it stands in.
RECURSIVE filter_from_non_letters(_, _, _)
filter_from_non_letters(s, i, run_of_digits) ==
    IF i > Len(s) THEN <<>>
    ELSE IF IsAsciiDigit(s[i]) \/ s[i] = Underscore
    THEN (IF run_of_digits THEN <<>> ELSE <<Underscore>>)
         \o filter_from_non_letters(s, i + 1, TRUE)
    ELSE <<s[i]>> \o filter_from_non_letters(s, i + 1, FALSE)

\* Registry::filter_label_chars: each run of digits becomes one underscore.
RECURSIVE filter_from(_, _, _)
filter_from(s, i, run_of_digits) ==
    IF i > Len(s) THEN <<>>
    ELSE IF IsAsciiDigit(s[i])
    THEN (IF run_of_digits THEN <<>> ELSE <<Underscore>>) \o filter_from(s, i + 1, TRUE)
    ELSE <<s[i]>> \o filter_from(s, i + 1, FALSE)

filter_label_chars(s) == filter_from(s, 1, FALSE)

\* An apply that ignores the transform and gives the preferred name.
apply_preferred(transform, label) == preferred_name(label)

\* Transform::apply
apply(transform, label) ==
    IF transform.kind = "Preferred" THEN preferred_name(label)
    ELSE filter_label_chars(preferred_name(label)) \o transform.suffix

\* increment's first loop: pop, and keep popping while the popped character is 'z'.
\* The length of what is left of s, the popped character included.
\* A single pop in place of the loop.
pop_once(s, n) == IF n > 0 /\ s[n] = CharZ THEN n - 1 ELSE n

RECURSIVE pop_z(_, _)
pop_z(s, n) == IF n > 0 /\ s[n] = CharZ THEN pop_z(s, n - 1) ELSE n

\* increment's match on the character it pops is unreachable!() for any
\* character other than 0-9, _ and a-y.
increment_unreachable(s) ==
    LET n == pop_z(s, Len(s)) IN
    /\ n > 0
    /\ ~(\/ (s[n] >= CharZero /\ s[n] <= CharNine)
         \/ (s[n] >= CharA /\ s[n] < CharZ)
         \/ s[n] = Underscore)

\* An increment that pads the carried positions with `_` alone.
increment_padding_underscores(s) ==
    LET original_len == Len(s)
        n == pop_z(s, original_len)
    IN IF n > 0
       THEN LET c == s[n]
                incremented ==
                    IF (c >= CharZero /\ c < CharNine) \/ (c >= CharA /\ c < CharZ)
                    THEN c + 1
                    ELSE IF c = CharNine THEN Underscore
                    ELSE CharA
            IN [i \in 1..original_len |->
                   IF i < n THEN s[i]
                   ELSE IF i = n THEN incremented
                   ELSE Underscore]
       ELSE [i \in 1..(original_len + 1) |->
                   IF i <= original_len THEN Underscore ELSE CharZero]

\* increment
increment(s) ==
    LET original_len == Len(s)
        n == pop_z(s, original_len)
    IN IF n > 0
       THEN LET c == s[n]
                incremented ==
                    IF (c >= CharZero /\ c < CharNine) \/ (c >= CharA /\ c < CharZ)
                    THEN c + 1
                    ELSE IF c = CharNine THEN Underscore
                    ELSE CharA
            IN [i \in 1..original_len |->
                   IF i < n THEN s[i]
                   ELSE IF i = n THEN incremented
                   ELSE IF i = original_len THEN CharZero
                   ELSE Underscore]
       ELSE [i \in 1..(original_len + 1) |->
                   IF i <= original_len THEN Underscore ELSE CharZero]

\* A loop that takes the first candidate without looking it up.
first_suffix_unchecked(existing, base, suffix) == suffix

\* sanitize's loop: the first suffix, counting from the given one, whose
\* candidate base + suffix is not in existing.
RECURSIVE first_free_suffix(_, _, _)
first_free_suffix(existing, base, suffix) ==
    IF LowerStr(base \o suffix) \notin existing THEN suffix
    ELSE first_free_suffix(existing, base, increment(suffix))

\* A sanitize that hands out names without recording them as taken.
sanitize_without_recording(reg, label) ==
    LET id == LabelId(label)
        preferred == apply(Preferred, label)
        base == filter_label_chars(preferred)
        suffix == first_free_suffix(reg.existing, base, <<>>)
    IN IF id \in DOMAIN reg.label_transforms
       THEN [name |-> apply(reg.label_transforms[id], label), registry |-> reg]
       ELSE IF is_valid_label(preferred) /\ LowerStr(preferred) \notin reg.existing
       THEN [name |-> preferred,
             registry |-> [reg EXCEPT !.label_transforms = (id :> Preferred) @@ @]]
       ELSE [name |-> base \o suffix,
             registry |->
                [reg EXCEPT !.label_transforms = (id :> FilteredWithSuffix(suffix)) @@ @]]

\* Registry::sanitize: the name returned and the registry after the call.
sanitize(reg, label) ==
    LET id == LabelId(label)
        preferred == apply(Preferred, label)
        base == filter_label_chars(preferred)
        suffix == first_free_suffix(reg.existing, base, <<>>)
    IN IF id \in DOMAIN reg.label_transforms
       THEN [name |-> apply(reg.label_transforms[id], label), registry |-> reg]
       ELSE IF is_valid_label(preferred) /\ LowerStr(preferred) \notin reg.existing
       THEN [name |-> preferred,
             registry |->
                [reg EXCEPT !.label_transforms = (id :> Preferred) @@ @,
                            !.existing = @ \cup {LowerStr(preferred)}]]
       ELSE [name |-> base \o suffix,
             registry |->
                [reg EXCEPT !.label_transforms = (id :> FilteredWithSuffix(suffix)) @@ @,
                            !.existing = @ \cup {LowerStr(base \o suffix)}]]

\* gen_anonymous's loop: advance the counter until its value is not taken.
RECURSIVE next_untaken(_, _)
next_untaken(existing, counter) ==
    IF LowerStr(counter) \notin existing THEN counter
    ELSE next_untaken(existing, increment(counter))

\* Registry::gen_anonymous: the name returned and the registry after the call.
gen_anonymous(reg) ==
    LET counter == next_untaken(reg.existing, increment(reg.anonymous_counter))
    IN [name |-> counter, registry |-> [reg EXCEPT !.anonymous_counter = counter]]

---------------------------------------------------------------------------
(* The resolver pipeline (labels/process.rs) *)

\* usize::to_string
RECURSIVE to_string(_)
to_string(n) ==
    IF n < 10 THEN <<CharZero + n>>
    ELSE to_string(n \div 10) \o <<CharZero + (n % 10)>>

\* LocalLabelResolver::default()
DefaultResolver ==
    [current_section |-> <<>>, current_section_index |-> 0, pair_info |-> <<>>]

\* A map lookup with the value to use for a missing key (entry().or_default(),
\* entry().or_insert_with()).
GetOr(map, key, default) == IF key \in DOMAIN map THEN map[key] ELSE default

\* An insert that keeps the value a key already has.
insert_if_absent(map, key, value) ==
    IF key \in DOMAIN map THEN map ELSE (key :> value) @@ map

\* A map with key set to value (HashMap::insert).
Insert(map, key, value) == (key :> value) @@ map

\* LocalLabelResolver::start_new_section
start_new_section(resolver, section) ==
    [resolver EXCEPT !.current_section = section,
                     !.current_section_index = @ + 1]

\* A get_section_prefix that returns the section name as it is.
section_name_as_prefix(resolver, local) ==
    [prefix |-> resolver.current_section, resolver |-> resolver]

\* A get_section_prefix that keeps one count per section name, whatever
\* the local.
get_section_prefix_per_section(resolver, local) ==
    LET key == <<resolver.current_section, <<>>>>
        found == GetOr(resolver.pair_info, key,
                       [last_section_index |-> resolver.current_section_index,
                        num_sections |-> 1])
        info == IF found.last_section_index # resolver.current_section_index
                THEN [last_section_index |-> resolver.current_section_index,
                      num_sections |-> found.num_sections + 1]
                ELSE found
    IN [prefix |-> IF info.num_sections > 1
                   THEN resolver.current_section \o <<Dollar>>
                        \o to_string(info.num_sections - 1)
                   ELSE resolver.current_section,
        resolver |-> [resolver EXCEPT !.pair_info = Insert(@, key, info)]]

\* LocalLabelResolver::get_section_prefix: the prefix returned and the
\* resolver after the call.
get_section_prefix(resolver, local) ==
    LET key == <<resolver.current_section, local>>
        found == GetOr(resolver.pair_info, key,
                       [last_section_index |-> resolver.current_section_index,
                        num_sections |-> 1])
        info == IF found.last_section_index # resolver.current_section_index
                THEN [last_section_index |-> resolver.current_section_index,
                      num_sections |-> found.num_sections + 1]
                ELSE found
    IN [prefix |-> IF info.num_sections > 1
                   THEN resolver.current_section \o <<Dollar>>
                        \o to_string(info.num_sections - 1)
                   ELSE resolver.current_section,
        resolver |-> [resolver EXCEPT !.pair_info = Insert(@, key, info)]]

RECURSIVE resolve_chunks(_, _, _, _, _)

\* A loop that takes `:base.local` for the start of the section base as well.
resolve_chunks_starting_sections(chunks, k, resolvers, sink, ctx) ==
    IF k > Len(chunks) THEN [chunks |-> chunks, sink |-> sink]
    ELSE LET chunk == chunks[k]
             label == chunk.name
             resolver == GetOr(resolvers, label.namespace, DefaultResolver)
             is_definition == ~chunk.is_ref
         IN IF ~(IsLabel(chunk) /\ ~chunk.is_anon)
            THEN resolve_chunks(chunks, k + 1, resolvers, sink, ctx)
            ELSE IF label.local # None
            THEN IF label.name = <<>>
                 THEN LET r == get_section_prefix(resolver, label.local[1])
                      IN resolve_chunks(
                            [chunks EXCEPT ![k].name.name = r.prefix], k + 1,
                            Insert(resolvers, label.namespace, r.resolver),
                            sink, ctx)
                 ELSE IF is_definition
                 THEN resolve_chunks(chunks, k + 1,
                        Insert(resolvers, label.namespace,
                               start_new_section(resolver, label.name)),
                        error(sink, with_span(ctx, label.span),
                              "local label definitions cannot specify a section name"),
                        ctx)
                 ELSE resolve_chunks(chunks, k + 1,
                        Insert(resolvers, label.namespace, resolver), sink, ctx)
            ELSE IF is_definition
            THEN resolve_chunks(chunks, k + 1,
                   Insert(resolvers, label.namespace,
                          start_new_section(resolver, label.name)),
                   sink, ctx)
            ELSE resolve_chunks(chunks, k + 1,
                   Insert(resolvers, label.namespace, resolver), sink, ctx)

\* resolve_local_labels, the loop over one stat's chunks from chunk k on:
\* the chunks and the sink after it.
resolve_chunks(chunks, k, resolvers, sink, ctx) ==
    IF k > Len(chunks) THEN [chunks |-> chunks, sink |-> sink]
    ELSE LET chunk == chunks[k]
             label == chunk.name
             resolver == GetOr(resolvers, label.namespace, DefaultResolver)
             is_definition == ~chunk.is_ref
         IN IF ~(IsLabel(chunk) /\ ~chunk.is_anon)
            THEN resolve_chunks(chunks, k + 1, resolvers, sink, ctx)
            ELSE IF label.local # None
            THEN IF label.name = <<>>
                 THEN LET r == get_section_prefix(resolver, label.local[1])
                      IN resolve_chunks(
                            [chunks EXCEPT ![k].name.name = r.prefix], k + 1,
                            Insert(resolvers, label.namespace, r.resolver),
                            sink, ctx)
                 ELSE IF is_definition
                 THEN resolve_chunks(chunks, k + 1,
                        Insert(resolvers, label.namespace, resolver),
                        error(sink, with_span(ctx, label.span),
                              "local label definitions cannot specify a section name"),
                        ctx)
                 ELSE resolve_chunks(chunks, k + 1,
                        Insert(resolvers, label.namespace, resolver), sink, ctx)
            ELSE IF is_definition
            THEN resolve_chunks(chunks, k + 1,
                   Insert(resolvers, label.namespace,
                          start_new_section(resolver, label.name)),
                   sink, ctx)
            ELSE resolve_chunks(chunks, k + 1,
                   Insert(resolvers, label.namespace, resolver), sink, ctx)

\* resolve_local_labels, from stat i (1-based here, stat index i - 1) on.
RECURSIVE resolve_local_labels(_, _, _, _)
resolve_local_labels(sts, i, sink, ctx) ==
    IF i > Len(sts) THEN [stats |-> sts, sink |-> sink]
    ELSE LET r == resolve_chunks(sts[i], 1, <<>>, sink, with_stat(ctx, i - 1))
         IN resolve_local_labels([sts EXCEPT ![i] = r.chunks], i + 1, r.sink, ctx)

\* The key sanitize_named_labels builds for a label: [namespace "~"] name ["." local]
full_name(name) ==
    (IF name.namespace # None THEN name.namespace[1] \o <<Tilde>> ELSE <<>>)
    \o name.name
    \o (IF name.local # None THEN <<Dot>> \o name.local[1] ELSE <<>>)

\* sanitize_named_labels, the loop over one stat's chunks from chunk k on.
RECURSIVE sanitize_chunks(_, _, _)
sanitize_chunks(chunks, k, reg) ==
    IF k > Len(chunks) THEN [chunks |-> chunks, registry |-> reg]
    ELSE IF IsLabel(chunks[k]) /\ ~chunks[k].is_anon
    THEN LET r == sanitize(reg, chunks[k].name)
         IN sanitize_chunks([chunks EXCEPT ![k].name.name = r.name], k + 1, r.registry)
    ELSE sanitize_chunks(chunks, k + 1, reg)

\* sanitize_named_labels, from stat i on.
RECURSIVE sanitize_named_labels(_, _, _)
sanitize_named_labels(sts, i, reg) ==
    IF i > Len(sts) THEN [stats |-> sts, registry |-> reg]
    ELSE LET r == sanitize_chunks(sts[i], 1, reg)
         IN sanitize_named_labels([sts EXCEPT ![i] = r.chunks], i + 1, r.registry)

AnonB == Str(<<"@","b">>)
AnonF == Str(<<"@","f">>)

\* anonymous_forward_pass, the loop over one stat's chunks from chunk k on.
\* i is get_next_name's index into label_names.
RECURSIVE forward_chunks(_, _, _, _, _, _, _, _)
forward_chunks(chunks, k, i, label_names, namespace_to_latest, reg, sink, ctx) ==
    IF k > Len(chunks)
    THEN [chunks |-> chunks, label_names |-> label_names, registry |-> reg,
          sink |-> sink]
    ELSE LET chunk == chunks[k]
             name == chunk.name
         IN IF IsLabel(chunk) /\ ~chunk.is_ref /\ chunk.is_anon
            THEN LET g == gen_anonymous(reg)
                     names == IF i = Len(label_names)
                              THEN Append(label_names, g.name) ELSE label_names
                     reg1 == IF i = Len(label_names) THEN g.registry ELSE reg
                     assigned == names[i + 1]
                 IN forward_chunks([chunks EXCEPT ![k].name.name = assigned],
                       k + 1, i + 1, names,
                       Insert(namespace_to_latest, name.namespace, assigned),
                       reg1, sink, ctx)
            ELSE IF IsLabel(chunk) /\ chunk.is_ref /\ chunk.is_anon /\ name.name = AnonB
            THEN IF name.namespace \in DOMAIN namespace_to_latest
                 THEN forward_chunks(
                        [chunks EXCEPT ![k].name.name = namespace_to_latest[name.namespace]],
                        k + 1, i, label_names, namespace_to_latest, reg, sink, ctx)
                 ELSE forward_chunks(chunks, k + 1, i, label_names,
                        namespace_to_latest, reg,
                        error(sink, with_span(ctx, name.span),
                              "backward reference needs an anonymous label"),
                        ctx)
            ELSE forward_chunks(chunks, k + 1, i, label_names, namespace_to_latest,
                                reg, sink, ctx)

\* The body of anonymous_forward_pass's loop over the stats: stat i's chunks
\* go through the loop above, r, which leaves the pass's locals as s.
forward_stat(s, i, r) ==
    [stats |-> [s.stats EXCEPT ![i] = r.chunks], label_names |-> r.label_names,
     registry |-> r.registry, sink |-> r.sink]

\* A forward pass in which each stat goes on from the end of label_names.
RECURSIVE anonymous_forward_pass_without_reuse(_, _, _)
anonymous_forward_pass_without_reuse(s, i, ctx) ==
    IF i > Len(s.stats) THEN s
    ELSE anonymous_forward_pass_without_reuse(
           forward_stat(s, i,
              forward_chunks(s.stats[i], 1, Len(s.label_names), s.label_names,
                             <<>>, s.registry, s.sink, with_stat(ctx, i - 1))),
           i + 1, ctx)

\* anonymous_forward_pass, from stat i on; s holds stats, label_names, the
\* registry and the sink.
RECURSIVE anonymous_forward_pass(_, _, _)
anonymous_forward_pass(s, i, ctx) ==
    IF i > Len(s.stats) THEN s
    ELSE anonymous_forward_pass(
           forward_stat(s, i,
              forward_chunks(s.stats[i], 1, 0, s.label_names, <<>>, s.registry,
                             s.sink, with_stat(ctx, i - 1))),
           i + 1, ctx)

\* anonymous_backward_pass, the loop over one stat's chunks in reverse, from
\* chunk k down.
RECURSIVE backward_chunks(_, _, _, _, _)
backward_chunks(chunks, k, namespace_to_latest, sink, ctx) ==
    IF k < 1 THEN [chunks |-> chunks, sink |-> sink]
    ELSE LET chunk == chunks[k]
             name == chunk.name
         IN IF IsLabel(chunk) /\ ~chunk.is_ref /\ chunk.is_anon
            THEN backward_chunks(chunks, k - 1,
                   Insert(namespace_to_latest, name.namespace, name.name), sink, ctx)
            ELSE IF IsLabel(chunk) /\ chunk.is_ref /\ chunk.is_anon /\ name.name = AnonF
            THEN IF name.namespace \in DOMAIN namespace_to_latest
                 THEN backward_chunks(
                        [chunks EXCEPT ![k].name.name = namespace_to_latest[name.namespace]],
                        k - 1, namespace_to_latest, sink, ctx)
                 ELSE backward_chunks(chunks, k - 1, namespace_to_latest,
                        error(sink, with_span(ctx, name.span),
                              "forward reference needs an anonymous label"),
                        ctx)
            ELSE backward_chunks(chunks, k - 1, namespace_to_latest, sink, ctx)

\* anonymous_backward_pass, from stat i on.
RECURSIVE anonymous_backward_pass(_, _, _, _)
anonymous_backward_pass(sts, i, sink, ctx) ==
    IF i > Len(sts) THEN [stats |-> sts, sink |-> sink]
    ELSE LET r == backward_chunks(sts[i], Len(sts[i]), <<>>, sink, with_stat(ctx, i - 1))
         IN anonymous_backward_pass([sts EXCEPT ![i] = r.chunks], i + 1, r.sink, ctx)

\* "Join chunks together": the new code of one stat.
\* A return that hands the board back whatever was recorded.
then_some_always(sink) == "Some"

RECURSIVE join_chunks(_)
join_chunks(chunks) ==
    IF chunks = <<>> THEN <<>>
    ELSE (IF IsLabel(Head(chunks)) THEN Head(chunks).name.name ELSE Head(chunks).text)
         \o join_chunks(Tail(chunks))

\* process_labels' last line: (!ctx.any_errors()).then_some(board)
then_some_board(sink) == IF ~any_errors(sink) THEN "Some" ELSE "None"

---------------------------------------------------------------------------
(* Inputs: scripts, and boards of scripts *)

\* Bound: the number of lines of the scripts built from SmallLines.
MaxLines == 2

\* A two-byte character (U+00E9) in UTF-8.
EAcute == <<195, 169>>

\* One-line scripts covering the label forms, the commands and the failures
\* of the grammar.
Lines ==
    {Str(<<":","a">>),
     Str(<<":",".","b">>),
     Str(<<":","@">>),
     Str(<<":","n","~","a">>),
     Str(<<":","n","~",".","b">>),
     Str(<<":","a",".","b">>),
     Str(<<":","a"," ","z">>),
     Str(<<":","A","1">>),
     Str(<<"#","a">>),
     Str(<<"#",".","b">>),
     Str(<<"#","a",".","b">>),
     Str(<<"#","@","b">>),
     Str(<<"#","@","f">>),
     Str(<<"#","n","~","@","f">>),
     Str(<<"#","x",":","a">>),
     Str(<<"#","x",":","@","b">>),
     Str(<<"#","x",":",".","b">>),
     Str(<<"#","x",":","a",".","b">>),
     Str(<<"#","a"," ","z">>),
     Str(<<"h","i">>),
     Str(<<"/","n">>),
     Str(<<"/","n","#","a">>),
     Str(<<"?","c","w"," ","i","#","@","b">>),
     Str(<<"#","i","f"," ","a"," ","#","b">>),
     Str(<<"#","i","f"," ","n","o","t"," ","a"," ","b">>),
     Str(<<"#">>),
     Str(<<"#","e","n","d">>),
     Str(<<"#","s","e","n","d"," ","a">>),
     Str(<<"#","S","E","N","D"," ","A",".","b">>),
     Str(<<"#","t","a","k","e"," ","g","e","m","s"," ","1"," ","#","x",":","@","f">>),
     Str(<<"#","z","a","p"," ","a">>),
     <<>>,
     EAcute,
     Str(<<"#","a","b","c">>) \o EAcute}

SmallLines ==
    {Str(<<":","a">>),
     Str(<<":",".","b">>),
     Str(<<"#","@","f"," ","z">>),
     Str(<<":","@">>),
     Str(<<"x">>)}

RECURSIVE JoinLines(_)
JoinLines(ls) ==
    IF Len(ls) = 1 THEN ls[1]
    ELSE ls[1] \o <<10>> \o JoinLines(Tail(ls))

Scripts ==
    Lines \cup UNION {{JoinLines(ls) : ls \in [1..n -> SmallLines]} : n \in 2..MaxLines}

\* Scripts of the boards that have two stats.
PairScripts ==
    {Str(<<":","a">>),
     Str(<<"#","x",":","@","b">>),
     Str(<<"#","a"," ","z">>),
     Str(<<"#">>)}

\* The boards process_labels is run on, each the codes of its stats.
Boards ==
    {<<s>> : s \in Scripts} \cup {<<s, t>> : s \in PairScripts, t \in PairScripts}

\* The scripts of 1 to n lines drawn from a set of lines.
ScriptsOver(lines, n) ==
    UNION {{JoinLines(ls) : ls \in [1..m -> lines]} : m \in 1..n}

\* The boards of one script each.
OneStat(scripts) == {<<s>> : s \in scripts}

\* Boards for named labels: definitions and references of one key spelled
\* in different cases, with a section given or inferred, in one script or
\* in two.
MaxNamedLines == 3

NamedLines ==
    {Str(<<":","a">>),
     Str(<<":",".","b">>),
     Str(<<"#",".","B">>),
     Str(<<"#","A",".","b">>)}

NamedPairScripts ==
    {Str(<<":","a","\n",":",".","b">>),
     Str(<<":","b">>),
     Str(<<"#","B">>),
     Str(<<"#","a",".","B">>),
     Str(<<":","n","~","a">>),
     Str(<<"#","N","~","A">>)}

NamedBoards ==
    OneStat(Lines) \cup OneStat(ScriptsOver(NamedLines, MaxNamedLines))
      \cup {<<s, t>> : s \in NamedPairScripts, t \in NamedPairScripts}

\* Boards for anonymous labels and the references to them, with and
\* without a namespace.
MaxAnonLines == 3

AnonLines ==
    {Str(<<":","@">>),
     Str(<<"#","@","b">>),
     Str(<<"#","@","f">>),
     Str(<<":","n","~","@">>),
     Str(<<"#","n","~","@","b">>)}

AnonPairScripts ==
    {Str(<<":","@","\n","#","@","b">>),
     Str(<<"#","@","f","\n",":","@">>),
     Str(<<"#","n","~","@","f">>),
     Str(<<":","0">>),
     Str(<<":","1","\n",":","@","\n",":","@">>)}

AnonBoards ==
    OneStat(Lines) \cup OneStat(ScriptsOver(AnonLines, MaxAnonLines))
      \cup {<<s, t>> : s \in AnonPairScripts, t \in AnonPairScripts}

\* Boards for local labels: scripts whose sections share a base name, and
\* some with a second base, a second local, a namespace and references.
MaxSectionLines == 6

SectionLines ==
    {Str(<<":","t">>),
     Str(<<":",".","f">>)}

SectionScripts ==
    {Str(<<":","n","~","t","\n",":","n","~",".","f","\n",":","t","\n",":",".","f","\n",":","n","~","t","\n",":","n","~",".","f">>),
     Str(<<":","t","\n",":",".","f","\n",":","t","\n",":",".","g","\n",":","t","\n","#",".","f">>),
     Str(<<":","t","\n",":",".","f","\n",":","u","\n",":",".","f","\n",":","t","\n","#",".","f">>),
     Str(<<":","t","\n","#",".","f","\n","#","t",".","f","\n",":","t","\n",":",".","f">>),
     Str(<<":","t","\n",":","u",".","f","\n",":",".","f","\n","#","t",".","f">>),
     Str(<<":","t","\n",":",".","f","\n",":","t",".","f","\n",":",".","f">>),
     Str(<<":","t","\n",":",".","f","\n",":","t","\n",":",".","g","\n",":","t","\n","#",".","f","\n",":",".","f">>),
     Str(<<":","t","\n",":",".","f","\n",":","T","\n",":",".","f">>)}

SectionBoards ==
    OneStat(Lines) \cup OneStat(ScriptsOver(SectionLines, MaxSectionLines))
      \cup OneStat(SectionScripts)

\* The Context process_labels is given: base.with_file_path(..).with_board(0)
BoardCtx == with_board(with_file_path(<<>>, "test.zzt"), 0)

---------------------------------------------------------------------------
(* process_labels on a board, its parser run term by term *)

NoHist == [parsed |-> <<>>, resolved |-> <<>>, sanitized |-> <<>>, forward |-> <<>>]

\* ParseState::new(code) and the call of grammar::program
StartParse(code) ==
    /\ input' = code
    /\ offset' = 0
    /\ captures' = <<>>
    /\ stack' = <<Frame("program", <<>>, 0, <<>>)>>
    /\ ret' = "none"
    /\ last' = NoFrame

\* The stats of a board given the code of each: x stands for the fields of
\* a Stat other than its code, and differs from stat to stat.
StatsOf(b) == [i \in 1..Len(b) |-> [x |-> i, code |-> b[i]]]

\* A replacement that builds the stat anew around the code.
fresh_stat(old_stat, new_code) == [x |-> 0, code |-> new_code]

\* old_stat.code = new_code
set_code(old_stat, new_code) == [old_stat EXCEPT !.code = new_code]

InitOn(boards) ==
    /\ board \in {StatsOf(b) : b \in boards}
    /\ codes = board
    /\ input = board[1].code
    /\ offset = 0
    /\ captures = <<>>
    /\ stack = <<Frame("program", <<>>, 0, <<>>)>>
    /\ ret = "none"
    /\ last = NoFrame
    /\ pc = "parse"
    /\ stats = <<>>
    /\ messages = <<>>
    /\ registry = Registry_new
    /\ pool = <<>>
    /\ returned = "none"
    /\ hist = NoHist
    /\ ctr = <<>>
    /\ iter = 0
    /\ log = <<>>
    /\ scopes = <<>>
    /\ arg = <<>>
    /\ out = <<>>

Init == InitOn(Boards)

\* grammar::program has returned
Parsed == pc = "parse" /\ stack = <<>> /\ ret \in {"true", "false"}

\* The parser, or parse_stat_labels after it, panics: process_labels unwinds.
ParsePanics ==
    /\ pc = "parse"
    /\ \/ ret = "panic"
       \/ Parsed /\ parse_stat_labels_panics(input, captures, ret = "true")
    /\ pc' = "panicked"
    /\ UNCHANGED <<pegVars, pipeVars, board, hist, regVars, libVars>>

\* parse_stat_labels turns the captures of one stat into its chunk list; the
\* map over board.stats goes on to the next stat, or the passes begin.
ParseStat ==
    /\ Parsed
    /\ ~parse_stat_labels_panics(input, captures, ret = "true")
    /\ \E r \in {parse_stat_labels(input, captures, messages,
                                    with_stat(BoardCtx, Len(stats)))} :
       \E sts \in {Append(stats, r.chunks)} :
          /\ stats' = sts
          /\ messages' = r.sink
          /\ IF Len(sts) < Len(board)
             THEN /\ StartParse(board[Len(sts) + 1].code)
                  /\ UNCHANGED <<pc, hist>>
             ELSE /\ pc' = "resolve"
                  /\ hist' = [hist EXCEPT !.parsed = sts]
                  /\ UNCHANGED pegVars
    /\ UNCHANGED <<board, codes, registry, pool, returned, regVars, libVars>>

\* resolve_local_labels(&mut stats, ctx)
ResolveLocals ==
    /\ pc = "resolve"
    /\ \E r \in {resolve_local_labels(stats, 1, messages, BoardCtx)} :
          /\ stats' = r.stats
          /\ messages' = r.sink
          /\ hist' = [hist EXCEPT !.resolved = r.stats]
    /\ pc' = "sanitize"
    /\ UNCHANGED <<pegVars, board, codes, registry, pool, returned, regVars, libVars>>

\* sanitize_named_labels(&mut stats, &mut registry)
SanitizeNamed ==
    /\ pc = "sanitize"
    /\ \E r \in {sanitize_named_labels(stats, 1, registry)} :
          /\ stats' = r.stats
          /\ registry' = r.registry
          /\ hist' = [hist EXCEPT !.sanitized = r.stats]
    /\ pc' = "forward"
    /\ UNCHANGED <<pegVars, board, codes, messages, pool, returned, regVars, libVars>>

\* anonymous_forward_pass(&mut stats, &mut registry, ctx)
AnonymousForward ==
    /\ pc = "forward"
    /\ \E r \in {anonymous_forward_pass(
                    [stats |-> stats, label_names |-> <<>>, registry |-> registry,
                     sink |-> messages], 1, BoardCtx)} :
          /\ stats' = r.stats
          /\ registry' = r.registry
          /\ messages' = r.sink
          /\ pool' = r.label_names
          /\ hist' = [hist EXCEPT !.forward = r.stats]
    /\ pc' = "backward"
    /\ UNCHANGED <<pegVars, board, codes, returned, regVars, libVars>>

\* anonymous_backward_pass(&mut stats, ctx)
AnonymousBackward ==
    /\ pc = "backward"
    /\ \E r \in {anonymous_backward_pass(stats, 1, messages, BoardCtx)} :
          /\ stats' = r.stats
          /\ messages' = r.sink
    /\ pc' = "join"
    /\ UNCHANGED <<pegVars, board, codes, registry, pool, returned, hist, regVars, libVars>>

\* The chunks are joined into the cloned board's stats and the board is
\* returned unless an error was recorded.
JoinAndReturn ==
    /\ pc = "join"
    /\ codes' = [i \in 1..Len(codes) |->
                   IF i <= Len(stats) THEN set_code(codes[i], join_chunks(stats[i]))
                   ELSE codes[i]]
    /\ returned' = then_some_board(messages)
    /\ pc' = "done"
    /\ UNCHANGED <<pegVars, board, stats, messages, registry, pool, hist, regVars, libVars>>

\* One step of the generated parser.
PegStep ==
    \/ StepAnyChar
    \/ StepEOI
    \/ StepLiteral
    \/ StepRange
    \/ StepRule
    \/ StepCapture
    \/ StepSequence
    \/ StepChoice
    \/ StepOptional
    \/ StepStar
    \/ StepPlus
    \/ StepNegLookahead
    \/ StepPosLookahead

Passes ==
    \/ ResolveLocals
    \/ SanitizeNamed
    \/ AnonymousForward
    \/ AnonymousBackward
    \/ JoinAndReturn

Next ==
    \/ PegStep
    \/ ParsePanics
    \/ ParseStat
    \/ Passes

Spec == Init /\ [][Next]_vars

\* process_labels on the boards of each family of labels.
InitNamed == InitOn(NamedBoards)
SpecNamed == InitNamed /\ [][Next]_vars

InitAnon == InitOn(AnonBoards)
SpecAnon == InitAnon /\ [][Next]_vars

InitSection == InitOn(SectionBoards)
SpecSection == InitSection /\ [][Next]_vars

---------------------------------------------------------------------------
(* The registry on its own: callers of sanitize, gen_anonymous, increment *)

\* Bound: the number of sanitize calls made on one registry.
MaxCalls == 4

\* Bound: the number of gen_anonymous calls that follow them.
MaxAnonymous == 2

\* Bound: the length of the strings increment is iterated to.
MaxCtrLen == 2

\* A LabelName as resolve_local_labels leaves it.
Name(namespace, name, local) ==
    [namespace |-> namespace, name |-> name, local |-> local,
     span |-> [start |-> 0, end |-> 0]]

\* Labels that differ in case only, in namespace only, in section only, in
\* digits only; a builtin; and one whose own name is another's first
\* suffixed candidate.
RegistryLabels ==
    {Name(None, Str(<<"a">>), None),
     Name(None, Str(<<"A">>), None),
     Name(Some(Str(<<"n">>)), Str(<<"a">>), None),
     Name(None, Str(<<"t">>), Some(Str(<<"a">>))),
     Name(None, Str(<<"t","$","1">>), Some(Str(<<"a">>))),
     Name(None, Str(<<"a","1","b">>), None),
     Name(None, Str(<<"a","2","b">>), None),
     Name(None, Str(<<"t","o","u","c","h">>), None),
     Name(None, Str(<<"a","0">>), None)}

\* Labels around the builtin names: a builtin as written and in another
\* case, a builtin's name in a namespace and as a local, a label that takes
\* the first suffixed candidate, and a label named like the first anonymous
\* name.
ReservedLabels ==
    {Name(None, Str(<<"t","o","u","c","h">>), None),
     Name(None, Str(<<"T","o","u","c","h">>), None),
     Name(Some(Str(<<"n">>)), Str(<<"t","o","u","c","h">>), None),
     Name(None, Str(<<"a">>), Some(Str(<<"t","o","u","c","h">>))),
     Name(None, Str(<<"t","o","u","c","h","0">>), None),
     Name(Some(Str(<<"n">>)), Str(<<"S","H","O","T">>), None),
     Name(None, Str(<<"0">>), None)}

\* Labels with digits and underscores side by side, as names and as a
\* local of a namespaced name, and two labels that are valid as written.
StemLabels ==
    {Name(None, Str(<<"a","1","2","b">>), None),
     Name(None, Str(<<"a","_","1","b">>), None),
     Name(None, Str(<<"a","1","_","2","b">>), None),
     Name(Some(Str(<<"n">>)), Str(<<"t">>), Some(Str(<<"c","1","_","b">>))),
     Name(None, Str(<<"a","_","b">>), None),
     Name(None, Str(<<"a","_","_","b">>), None)}

\* The labels a run of sanitize calls draws from.
LabelsOf(mode) ==
    IF mode = "reserved" THEN ReservedLabels
    ELSE IF mode = "stems" THEN StemLabels
    ELSE RegistryLabels

InitRegistryOn(modes) ==
    /\ pc \in modes
    /\ registry = Registry_new
    /\ log = <<>>
    /\ ctr = <<>>
    /\ iter = 0
    /\ scopes = <<>>
    /\ arg = <<>>
    /\ out = <<>>
    /\ pool = <<>>
    /\ board = <<>>
    /\ codes = <<>>
    /\ input = <<>>
    /\ offset = 0
    /\ captures = <<>>
    /\ stack = <<>>
    /\ ret = "none"
    /\ last = NoFrame
    /\ stats = <<>>
    /\ messages = <<>>
    /\ returned = "none"
    /\ hist = NoHist

InitRegistry == InitRegistryOn({"sanitize", "increment"})

\* registry.sanitize(&label)
CallSanitize ==
    /\ pc \in {"sanitize", "reserved", "stems"}
    /\ Len(log) < MaxCalls
    /\ \E label \in LabelsOf(pc) :
       \E r \in {sanitize(registry, label)} :
          /\ registry' = r.registry
          /\ log' = Append(log, [label |-> label, name |-> r.name,
                                  changed |-> r.registry # registry])
    /\ UNCHANGED <<pegVars, pc, board, hist, ctr, iter, stats, codes, messages, pool,
                   returned, libVars>>

\* registry.gen_anonymous(), called once the named labels are sanitized
CallGenAnonymous ==
    /\ pc \in {"sanitize", "reserved", "stems", "anonymous"}
    /\ Len(pool) < MaxAnonymous
    /\ \E r \in {gen_anonymous(registry)} :
          /\ registry' = r.registry
          /\ pool' = Append(pool, r.name)
    /\ pc' = "anonymous"
    /\ UNCHANGED <<pegVars, board, hist, regVars, libVars, stats, codes, messages,
                   returned>>

\* increment(&mut ctr), from the empty string on
IncrementCtr ==
    /\ pc = "increment"
    /\ \E s \in {increment(ctr)} :
          /\ Len(s) <= MaxCtrLen
          /\ ctr' = s
    /\ iter' = iter + 1
    /\ UNCHANGED <<pegVars, pipeVars, pc, board, hist, log, libVars>>

NextRegistry ==
    \/ CallSanitize
    \/ CallGenAnonymous
    \/ IncrementCtr

SpecRegistry == InitRegistry /\ [][NextRegistry]_vars

\* Every script of at most two characters out of five.
ShortScripts ==
    LET alphabet == {Ord("#"), Ord("/"), Ord("\n"), Ord(" "), Ord("t")}
    IN {<<>>} \cup {<<a>> : a \in alphabet}
              \cup {<<a, b>> : a \in alphabet, b \in alphabet}

\* The test helper parse(rule, s) of peg/peg.rs: a rule function is run on
\* an input from offset 0.
TestCases ==
    {[rule |-> "fake_csv", input |-> Str(<<"f","o","o",",","b","a","r","\n","b","a","r",",","f","o","o">>)],
     [rule |-> "fake_csv", input |-> Str(<<"f","o","o",",","f","o","o","\n","f","o","o",";","f","o","o">>)],
     [rule |-> "quoted", input |-> Str(<<"\"","a","\\","\"","\"">>)],
     [rule |-> "quoted", input |-> Str(<<"\"","n","o">>)],
     [rule |-> "case_sensitivity", input |-> Str(<<"S","t","r","i","c","t"," ","a","b",","," ","L","O","O","S","E"," ","X","y">>)],
     [rule |-> "case_sensitivity", input |-> Str(<<"S","T","R","I","C","T"," ","a",","," ","l","o","o","s","e"," ","x">>)],
     [rule |-> "case_sensitivity", input |-> Str(<<"S","t","r","i","c","t"," ","A","B",","," ","l","o","o","s","e"," ","x">>)],
     [rule |-> "long_icase_str", input |-> Str(<<"F","O","O"," ","B","A","R"," ","B","A","Z">>)],
     [rule |-> "long_icase_str", input |-> Str(<<"F","O","O"," ","B","A","R"," ","B","A">>)],
     [rule |-> "long_icase_str", input |-> Str(<<"f","o","o"," ","b","a","r"," ","b","a">>) \o EAcute],
     [rule |-> "hex_config", input |-> Str(<<"l","e","t"," ","f","o","o"," ","="," ","0","x","c","0","f","f","e","e">>)],
     [rule |-> "hex_config", input |-> Str(<<"L","E","T"," ","b","a","r"," ","="," ","0","X","C","A","F","E">>)],
     [rule |-> "hex_config", input |-> Str(<<"l","e","t"," ","F","o","o"," ","="," ","0","x","c","0","f","f","e","e">>)],
     [rule |-> "hex_config", input |-> Str(<<"l","e","t"," ","B","A","R"," ","="," ","0","x","c","a","f","e">>)],
     [rule |-> "hex_config", input |-> Str(<<"L","E","T"," ","F","o","o"," ","="," ","0","X","C","A","F","E">>)],
     [rule |-> "email", input |-> Str(<<"a","l","i","c","e","@","e","x","a","m","p","l","e",".","c","o","m">>)],
     [rule |-> "peek", input |-> Str(<<"a","b">>)],
     [rule |-> "peek", input |-> Str(<<"a">>)],
     [rule |-> "peek", input |-> Str(<<"b","a">>)],
     [rule |-> "refuse", input |-> Str(<<"a","b">>)],
     [rule |-> "refuse", input |-> Str(<<"a","c">>)],
     [rule |-> "refuse", input |-> Str(<<"c">>)],
     [rule |-> "program", input |-> Str(<<"#","G","I","V","E"," ","a","m","m","o"," ","1">>)],
     [rule |-> "program", input |-> Str(<<"#","g","i","v","e"," ","A","M","M","O"," ","1">>)],
     [rule |-> "program", input |-> Str(<<"#","P","u","t"," ","N"," ","R","e","d"," ","G","e","m">>)],
     [rule |-> "program", input |-> Str(<<"#","a","b","c">>) \o EAcute],
     [rule |-> "program", input |-> Str(<<":","a"," ","z">>)]}
      \cup {[rule |-> "program", input |-> i] : i \in ShortScripts}
      \cup {[rule |-> r, input |-> i] :
               r \in {"option", "plus", "star"},
               i \in {Str(<<"(",")">>), Str(<<"(","x",")">>), Str(<<"(","x","x","x",")">>)}}

InitPeg ==
    /\ pc = "test"
    /\ \E tc \in TestCases :
          /\ input = tc.input
          /\ stack = <<Frame(tc.rule, <<>>, 0, <<>>)>>
    /\ offset = 0
    /\ captures = <<>>
    /\ ret = "none"
    /\ last = NoFrame
    /\ board = <<>>
    /\ codes = <<>>
    /\ stats = <<>>
    /\ messages = <<>>
    /\ registry = Registry_new
    /\ pool = <<>>
    /\ returned = "none"
    /\ hist = NoHist
    /\ ctr = <<>>
    /\ iter = 0
    /\ log = <<>>
    /\ scopes = <<>>
    /\ arg = <<>>
    /\ out = <<>>

SpecPeg == InitPeg /\ [][PegStep]_vars

\* The same calls on the labels around the builtin names.
InitReserved == InitRegistryOn({"reserved", "increment"})
SpecReserved == InitReserved /\ [][NextRegistry]_vars

\* The same calls on the labels with digits and underscores.
InitStems == InitRegistryOn({"stems", "increment"})
SpecStems == InitStems /\ [][NextRegistry]_vars

---------------------------------------------------------------------------
(* Properties of the parser *)

\* C1 (atomic failure): whenever a term of a rule, or the rule's function
\* itself, has just returned false, the cursor is at the offset the term was
\* entered at and the capture buffer is exactly the buffer it was entered
\* with, whatever its sub-terms consumed or pushed before the failure.
AtomicFailure ==
    ret = "false" =>
        /\ offset = last.entry.offset
        /\ captures = last.entry.captures

\* A rule function has returned false after its sub-terms had moved the
\* cursor forward and left captures in the buffer.
AtomicFailureWitness ==
    /\ ret = "false"
    /\ last.path = <<>>
    /\ last.before.offset > last.entry.offset
    /\ Len(last.before.captures) > Len(last.entry.captures)

\* The captures of a buffer that are pending: begun and not committed.
Pending(caps) == {i \in 1..Len(caps) : caps[i].subtree_len = 0}

\* Every capture after the first n of the buffer has a subtree that fits in
\* the buffer and holds the subtree of each capture inside it.
NestedFrom(caps, n) ==
    \A i \in (n + 1)..Len(caps) :
        /\ caps[i].subtree_len >= 1
        /\ i + caps[i].subtree_len - 1 <= Len(caps)
        /\ \A j \in (i + 1)..(i + caps[i].subtree_len - 1) :
              j + caps[j].subtree_len <= i + caps[i].subtree_len

\* Walking the buffer as a forest, every capture's children included, trips
\* a panic of Captures::next.
ForestPanics(caps) ==
    \/ IterPanics(caps, 1, Len(caps))
    \/ \E i \in 1..Len(caps) : caps[i].subtree_len > 0 /\ children_panics(caps, i)

\* A rule function has just returned.
RuleReturned == ret \in {"true", "false"} /\ last.path = <<>>

\* C2 as stated (capture-tree well-formedness at every return): whenever a
\* rule function returns, no capture of the buffer is pending, every capture
\* has 1 <= subtree_len <= len - i with subtrees nested, and the buffer can
\* be walked without a panic.
CaptureTreeAtEveryReturn ==
    RuleReturned =>
        /\ Pending(captures) = {}
        /\ NestedFrom(captures, 0)
        /\ ~ForestPanics(captures)

\* C2 (capture-tree well-formedness): whenever a rule function returns, the
\* captures that were in the buffer when it was called are untouched, so the
\* only pending captures are those its callers have begun; every capture it
\* added is committed, with 1 <= subtree_len <= len - i and subtrees nested;
\* and when it was called with no capture pending the whole buffer can be
\* walked as a pre-order forest without Captures::next panicking.
CaptureTreeWellFormed ==
    RuleReturned =>
        LET n == Len(last.entry.captures) IN
        /\ Len(captures) >= n
        /\ SubSeq(captures, 1, n) = last.entry.captures
        /\ NestedFrom(captures, n)
        /\ Pending(last.entry.captures) = {} =>
              /\ Pending(captures) = {}
              /\ NestedFrom(captures, 0)
              /\ ~ForestPanics(captures)

\* The outermost rule function has returned true, leaving a capture that
\* has captures inside it.
CaptureTreeWitness ==
    /\ RuleReturned
    /\ ret = "true"
    /\ stack = <<>>
    /\ \E i \in 1..Len(captures) : captures[i].subtree_len > 1

---------------------------------------------------------------------------
(* Properties of parse_stat_labels and process_labels *)

\* The offset of the input a chunk list has accounted for after k chunks.
RECURSIVE Pos(_, _)
Pos(chunks, k) ==
    IF k = 0 THEN 0
    ELSE IF IsLabel(chunks[k]) THEN chunks[k].name.span.end
    ELSE Pos(chunks, k - 1) + Len(chunks[k].text)

\* The text of the chunks from chunk k on, a label chunk standing for the
\* source text at its span.
RECURSIVE SourceText(_, _, _)
SourceText(code, chunks, k) ==
    IF k > Len(chunks) THEN <<>>
    ELSE (IF IsLabel(chunks[k])
          THEN SubSeq(code, chunks[k].name.span.start + 1, chunks[k].name.span.end)
          ELSE chunks[k].text)
         \o SourceText(code, chunks, k + 1)

\* The chunk list partitions code.
Partitions(code, chunks) ==
    /\ \A k \in 1..Len(chunks) :
          IF IsLabel(chunks[k])
          THEN /\ chunks[k].name.span.start = Pos(chunks, k - 1)
               /\ chunks[k].name.span.start <= chunks[k].name.span.end
               /\ chunks[k].name.span.end <= Len(code)
          ELSE /\ chunks[k].text # <<>>
               /\ chunks[k].text
                    = SubSeq(code, Pos(chunks, k - 1) + 1, Pos(chunks, k))
               /\ k < Len(chunks) => IsLabel(chunks[k + 1])
    /\ Pos(chunks, Len(chunks)) = Len(code)
    /\ SourceText(code, chunks, 1) = code

\* C9 (chunk faithfulness): the chunk list parse_stat_labels produced for a
\* script partitions the script: each label chunk's span starts where the
\* chunks before it end, each Verbatim chunk is a non-empty gap of the
\* input that runs up to the next label or to the end, and the Verbatim
\* texts and the source text at the label spans, concatenated, are the input.
ChunkFaithfulness ==
    \A i \in 1..Len(stats) : Partitions(board[i].code, stats[i])

\* A script has been split into text, a label, text, a label and text.
ChunkFaithfulnessWitness ==
    \E i \in 1..Len(stats) :
        /\ Len(stats[i]) = 5
        /\ \A k \in {2, 4} : IsLabel(stats[i][k])
        /\ \A k \in {1, 3, 5} : ~IsLabel(stats[i][k])

\* C10 (error gating): process_labels returns the rewritten board exactly
\* when no error-level message was recorded; warning-level messages do not
\* withhold it.
ErrorGating ==
    pc = "done" =>
        /\ returned \in {"Some", "None"}
        /\ returned = "Some" <=> \A i \in 1..Len(messages) : messages[i].level # "Error"

\* process_labels has returned a board although a warning was recorded.
ErrorGatingWitness ==
    /\ pc = "done"
    /\ returned = "Some"
    /\ \E i \in 1..Len(messages) :
          /\ messages[i].level = "Warning"
          /\ messages[i].message = "trailing characters at end of line"

---------------------------------------------------------------------------
(* Properties of the passes over the labels *)

\* The positions <<stat, chunk>> of a board's chunks that satisfy P.
Positions(sts, P(_)) ==
    UNION {{<<i, k>> : k \in {m \in 1..Len(sts[i]) : P(sts[i][m])}} :
           i \in 1..Len(sts)}

At(sts, p) == sts[p[1]][p[2]]

NamedLabel(c) == IsLabel(c) /\ ~c.is_anon
AnonReference(c) == IsLabel(c) /\ c.is_anon /\ c.is_ref
AnonDefinition(c) == IsLabel(c) /\ c.is_anon /\ ~c.is_ref

\* The full key [namespace~]base[.local] of a label name, as written.
FullKey(name) ==
    (IF name.namespace = <<>> THEN <<>> ELSE name.namespace[1] \o Str(<<"~">>))
    \o name.name
    \o (IF name.local = <<>> THEN <<>> ELSE Str(<<".">>) \o name.local[1])

\* C3 (cross-reference preservation): when process_labels is done, any two
\* named label chunks of the board, in one script or in two, whose resolved
\* full keys are equal under ASCII case folding carry names that are equal
\* under ASCII case folding.
CrossReferencePreservation ==
    pc = "done" =>
        \A p, q \in Positions(hist.resolved, NamedLabel) :
            LowerStr(FullKey(At(hist.resolved, p).name))
              = LowerStr(FullKey(At(hist.resolved, q).name))
            => LowerStr(At(stats, p).name.name) = LowerStr(At(stats, q).name.name)

\* A reference written as a bare local and a definition of the same key
\* written in another case have been through process_labels.
CrossReferenceWitness ==
    /\ pc = "done"
    /\ \E p, q \in Positions(hist.resolved, NamedLabel) :
          /\ At(hist.parsed, p).is_ref
          /\ At(hist.parsed, p).name.name = <<>>
          /\ ~At(hist.parsed, q).is_ref
          /\ FullKey(At(hist.resolved, p).name) # FullKey(At(hist.resolved, q).name)
          /\ LowerStr(FullKey(At(hist.resolved, p).name))
               = LowerStr(FullKey(At(hist.resolved, q).name))

Largest(S) == CHOOSE x \in S : \A y \in S : y <= x
Smallest(S) == CHOOSE x \in S : \A y \in S : x <= y

\* The anonymous definitions of a namespace in script i.
AnonDefinitions(i, namespace) ==
    {m \in 1..Len(stats[i]) :
        AnonDefinition(stats[i][m]) /\ stats[i][m].name.namespace = namespace}

\* An error with this text is recorded for script i at this span.
ErrorAt(msg, i, sp) ==
    \E e \in 1..Len(messages) :
        /\ messages[e].level = "Error"
        /\ messages[e].message = msg
        /\ messages[e].location.stat = <<i - 1>>
        /\ messages[e].location.span = <<sp>>

\* The reference at chunk k of script i is wired to the definition at chunk
\* m, or, when there is no candidate, has the error recorded at its span.
Wired(i, k, candidates, m, msg) ==
    IF candidates # {}
    THEN /\ stats[i][k].name.name = stats[i][m].name.name
         /\ ~ErrorAt(msg, i, stats[i][k].name.span)
    ELSE ErrorAt(msg, i, stats[i][k].name.span)

\* C7 (anonymous wiring): when process_labels is done, in each script every
\* @b reference carries the name given to the nearest anonymous definition
\* of its namespace before it, every @f reference that of the nearest one
\* after it, and a reference with no such definition has the error
\* "backward (forward) reference needs an anonymous label" at its span.
AnonymousWiring ==
    pc = "done" =>
        \A p \in Positions(stats, AnonReference) :
            LET i == p[1]
                k == p[2]
                defs == AnonDefinitions(i, stats[i][k].name.namespace)
                before == {m \in defs : m < k}
                after == {m \in defs : m > k}
            IN IF hist.sanitized[i][k].name.name = Str(<<"@","b">>)
               THEN Wired(i, k, before, Largest(before),
                          "backward reference needs an anonymous label")
               ELSE /\ hist.sanitized[i][k].name.name = Str(<<"@","f">>)
                    /\ Wired(i, k, after, Smallest(after),
                             "forward reference needs an anonymous label")

\* A @b reference with a namespace has two anonymous definitions before it,
\* the nearer one of another namespace.
AnonymousWiringWitness ==
    /\ pc = "done"
    /\ \E p \in Positions(stats, AnonReference) :
          /\ hist.sanitized[p[1]][p[2]].name.name = Str(<<"@","b">>)
          /\ At(stats, p).name.namespace # <<>>
          /\ p[2] > 4
          /\ AnonDefinition(stats[p[1]][p[2] - 2])
          /\ stats[p[1]][p[2] - 2].name.namespace = <<>>
          /\ AnonDefinition(stats[p[1]][p[2] - 4])
          /\ stats[p[1]][p[2] - 4].name.namespace = At(stats, p).name.namespace

\* A label written as a bare local: `.foo`.
BareLocal(c) == NamedLabel(c) /\ c.name.local # <<>> /\ c.name.name = <<>>

\* The chunk that starts the section chunk k of a script is in (0 before the
\* first section of its namespace), and the base name of a section.
SectionStarts(chunks, namespace) ==
    {j \in 1..Len(chunks) :
        /\ NamedLabel(chunks[j]) /\ ~chunks[j].is_ref
        /\ chunks[j].name.local = <<>>
        /\ chunks[j].name.namespace = namespace}

SectionOf(chunks, k) ==
    LET earlier == {j \in SectionStarts(chunks, chunks[k].name.namespace) : j < k}
    IN IF earlier = {} THEN 0 ELSE Largest(earlier)

BaseOf(chunks, j) == IF j = 0 THEN <<>> ELSE chunks[j].name.name

\* The sections up to that of chunk k, of the same namespace and base name,
\* that contain the bare local chunk k is.
SectionsWithLocal(chunks, k) ==
    {j \in {0} \cup SectionStarts(chunks, chunks[k].name.namespace) :
        /\ j <= SectionOf(chunks, k)
        /\ BaseOf(chunks, j) = BaseOf(chunks, SectionOf(chunks, k))
        /\ \E m \in 1..Len(chunks) :
              /\ BareLocal(chunks[m])
              /\ chunks[m].name.namespace = chunks[k].name.namespace
              /\ chunks[m].name.local = chunks[k].name.local
              /\ SectionOf(chunks, m) = j}

RECURSIVE Decimal(_)
Decimal(n) ==
    IF n < 10 THEN <<48 + n>> ELSE Decimal(n \div 10) \o <<48 + (n % 10)>>

\* base for the first such section, base$1 for the second, base$2 ...
NthPrefix(base, n) ==
    IF n = 1 THEN base ELSE base \o Str(<<"$">>) \o Decimal(n - 1)

\* C8 (local disambiguation): once the locals of a script are resolved, a
\* bare local `.foo` in the n-th of the sections of its namespace that share
\* a base name and contain `.foo` has the prefix base for n = 1 and
\* base$(n-1) after that, so the same local in two such sections has two
\* different full keys.
LocalDisambiguation ==
    \A i \in 1..Len(hist.resolved) :
        LET chunks == hist.parsed[i]
            locals == {k \in 1..Len(chunks) : BareLocal(chunks[k])}
        IN /\ \A k \in locals :
                 hist.resolved[i][k].name.name
                   = NthPrefix(BaseOf(chunks, SectionOf(chunks, k)),
                               Cardinality(SectionsWithLocal(chunks, k)))
           /\ \A k, m \in locals :
                 (/\ chunks[k].name.namespace = chunks[m].name.namespace
                  /\ chunks[k].name.local = chunks[m].name.local
                  /\ SectionOf(chunks, k) # SectionOf(chunks, m))
                 => FullKey(hist.resolved[i][k].name)
                      # FullKey(hist.resolved[i][m].name)

\* A local of the third section of one base name has been given the
\* prefix base$2.
LocalDisambiguationWitness ==
    \E i \in 1..Len(hist.resolved) :
        \E k \in 1..Len(hist.parsed[i]) :
            /\ BareLocal(hist.parsed[i][k])
            /\ Cardinality(SectionsWithLocal(hist.parsed[i], k)) = 3
            /\ hist.resolved[i][k].name.name = Str(<<"t","$","2">>)

---------------------------------------------------------------------------
(* Properties of the registry *)

\* The target's identifier rule: not empty, letters and underscores, and the
\* final character may also be a digit.
ValidIdentifier(s) ==
    /\ s # <<>>
    /\ \A i \in 1..Len(s) :
          \/ IsUpper(s[i]) \/ IsLower(s[i]) \/ s[i] = Ord("_")
          \/ (i = Len(s) /\ IsAsciiDigit(s[i]))

\* C4 (registry uniqueness): after any sequence of sanitize calls on one
\* registry, two labels whose lowercase full keys differ have been given
\* names that differ under ASCII case folding.
RegistryUniqueness ==
    \A i, j \in 1..Len(log) :
        LabelId(log[i].label) # LabelId(log[j].label) =>
            LowerStr(log[i].name) # LowerStr(log[j].name)

\* Two labels with different keys whose preferred names are the same once
\* case and digits are set aside have both been sanitized.
RegistryUniquenessWitness ==
    \E i, j \in 1..Len(log) :
        /\ LabelId(log[i].label) # LabelId(log[j].label)
        /\ filter_label_chars(LowerStr(preferred_name(log[i].label)))
             = filter_label_chars(LowerStr(preferred_name(log[j].label)))

\* C5 (registry idempotence): a later sanitize call on a label already
\* sanitized, whatever calls came in between, returns the name the first
\* call returned and leaves the registry as it was.
RegistryIdempotence ==
    \A i, j \in 1..Len(log) :
        (i < j /\ log[i].label = log[j].label) =>
            /\ log[j].name = log[i].name
            /\ ~log[j].changed

\* A label that was given a suffixed name has been sanitized again after a
\* call on another label.
RegistryIdempotenceWitness ==
    \E i, j \in 1..Len(log) :
        /\ i + 1 < j
        /\ log[i].label = log[j].label
        /\ log[i + 1].label # log[i].label
        /\ log[i].name # preferred_name(log[i].label)

\* C6 (registry validity): every name sanitize has returned, every value
\* increment has produced from the empty string on, and every generated
\* anonymous name, satisfies the identifier rule.
RegistryValidity ==
    /\ \A i \in 1..Len(log) : ValidIdentifier(log[i].name)
    /\ \A i \in 1..Len(pool) : ValidIdentifier(pool[i])
    /\ ctr # <<>> => ValidIdentifier(ctr)

\* sanitize has returned a name that ends in a digit it appended to a
\* filtered name, and an anonymous name has been generated after it.
RegistryValidityWitness ==
    /\ \E i \in 1..Len(log) :
          /\ log[i].name # preferred_name(log[i].label)
          /\ preferred_name(log[i].label)
                # filter_label_chars(preferred_name(log[i].label))
          /\ IsAsciiDigit(log[i].name[Len(log[i].name)])
    /\ pool # <<>>

---------------------------------------------------------------------------
(* Properties of the failure paths *)

\* C11 (script syntax failure is non-fatal): when grammar::program returns
\* false on a stat's script, process_labels does not abort; it goes on to
\* the remaining stats.  The state excluded here is the one in which
\* process_labels has unwound right after program returned false.
SyntaxFailureNonFatal ==
    ~(pc = "panicked" /\ stack = <<>> /\ ret = "false")

---------------------------------------------------------------------------
(* Properties of the reserved names and of the anonymous names *)

ReservedNames ==
    {Str(<<"b","o","m","b","e","d">>), Str(<<"e","n","e","r","g","i","z","e">>),
     Str(<<"s","h","o","t">>), Str(<<"t","h","u","d">>),
     Str(<<"t","o","u","c","h">>)}

\* The label is an un-namespaced global whose key is a reserved name.
ReservedKey(label) ==
    /\ label.namespace = None
    /\ label.local = None
    /\ LowerStr(label.name) \in ReservedNames

IsProperPrefix(p, s) == Len(s) > Len(p) /\ SubSeq(s, 1, Len(p)) = p

\* C12 (reserved names): an un-namespaced global label whose key is a
\* reserved name keeps its name as written; any other label whose preferred
\* stem is a reserved name is given that stem followed by a non-empty
\* suffix; and no label other than the first kind is ever given a reserved
\* name.
ReservedNamesKept ==
    \A i \in 1..Len(log) :
       LET label == log[i].label
           stem == IF label.local # None THEN label.local[1] ELSE label.name
       IN /\ ReservedKey(label) => log[i].name = label.name
          /\ (~ReservedKey(label) /\ LowerStr(stem) \in ReservedNames)
                => IsProperPrefix(stem, log[i].name)
          /\ ~ReservedKey(label) => LowerStr(log[i].name) \notin ReservedNames

\* A builtin written in another case has kept its name, and a namespaced
\* label of the same stem has been given the stem with the second suffix,
\* the first one being taken.
ReservedNamesWitness ==
    /\ pc = "reserved"
    /\ \E i, j, k \in 1..Len(log) :
          /\ ReservedKey(log[i].label)
          /\ log[i].name = Str(<<"T","o","u","c","h">>)
          /\ log[j].label.namespace # None
          /\ log[j].name = Str(<<"t","o","u","c","h","1">>)
          /\ log[k].label.local # None
          /\ IsProperPrefix(Str(<<"t","o","u","c","h">>), log[k].name)

\* C13 (anonymous names are fresh): once the forward pass has run, no name
\* in the pool of generated anonymous names equals, under ASCII case
\* folding, a reserved name or the name sanitize gave to a named label of
\* the board, and the names of the pool are pairwise distinct.
AnonymousNamesFresh ==
    pc \in {"backward", "join", "done"} =>
        \A a \in 1..Len(pool) :
            /\ LowerStr(pool[a]) \notin ReservedNames
            /\ \A p \in Positions(hist.sanitized, NamedLabel) :
                  LowerStr(At(hist.sanitized, p).name.name) # LowerStr(pool[a])
            /\ \A b \in 1..Len(pool) : a # b => pool[a] # pool[b]

\* The named labels of the board took the first two names of the counter,
\* in both scripts, and the two anonymous names generated are the next two.
AnonymousNamesFreshWitness ==
    /\ pc = "done"
    /\ Len(board) = 2
    /\ pool = <<Str(<<"2">>), Str(<<"3">>)>>
    /\ \E p \in Positions(hist.sanitized, NamedLabel) :
          At(hist.sanitized, p).name.name = Str(<<"0">>)
    /\ \E p \in Positions(hist.sanitized, NamedLabel) :
          At(hist.sanitized, p).name.name = Str(<<"1">>)

---------------------------------------------------------------------------
(* Properties of increment *)

RECURSIVE Pow(_, _)
Pow(b, e) == IF e = 0 THEN 1 ELSE b * Pow(b, e - 1)

\* The place of a character in the order `_`, a..z (0..26), and in the
\* order 0..9, `_`, a..z (0..36).
Index27(c) == IF c = 95 THEN 0 ELSE c - 96
Index37(c) == IF c >= 48 /\ c <= 57 THEN c - 48 ELSE 10 + Index27(c)

In27(c) == c = 95 \/ (c >= 97 /\ c <= 122)
In37(c) == In27(c) \/ (c >= 48 /\ c <= 57)

\* The number a string over `_`, a..z is, read as a numeral of base 27.
RECURSIVE Value27(_, _)
Value27(s, n) == IF n = 0 THEN 0 ELSE Value27(s, n - 1) * 27 + Index27(s[n])

\* The number of strings of length 1 .. n over the 27 characters, and of
\* those whose last character may also be a digit.
RECURSIVE Count27(_)
Count27(n) == IF n = 0 THEN 0 ELSE Count27(n - 1) + Pow(27, n)
RECURSIVE Count37(_)
Count37(n) == IF n = 0 THEN 0 ELSE Count37(n - 1) + 37 * Pow(27, n - 1)

\* The place of a string in the enumeration, shorter strings first, of the
\* strings over `_`, a..z.
Rank27(s) == Count27(Len(s) - 1) + Value27(s, Len(s)) + 1

\* The place of a string in the enumeration, shorter strings first, of the
\* strings whose last character is one of 0..9, `_`, a..z and whose other
\* characters are `_`, a..z.
Rank37(s) ==
    Count37(Len(s) - 1) + Value27(s, Len(s) - 1) * 37 + Index37(s[Len(s)]) + 1

\* C14 as stated (increment enumeration, as specified): the first value is
\* `_` and the n-th value iterating increment gives is the n-th string over
\* the 27 characters `_`, a..z, shorter strings first.
IncrementAsSpecified ==
    (pc = "increment" /\ iter > 0) =>
        /\ \A k \in 1..Len(ctr) : In27(ctr[k])
        /\ Rank27(ctr) = iter
        /\ (iter = 1 => ctr = <<95>>)

\* C14 as amended: the first value is `0`; the last character ticks through
\* 0..9, `_`, a..z and the others through `_`, a..z, then carry; the n-th
\* value iterating increment gives is the n-th string of that form, shorter
\* strings first, so each is produced exactly once.
IncrementEnumeration ==
    (pc = "increment" /\ iter > 0) =>
        /\ Len(ctr) > 0
        /\ \A k \in 1..(Len(ctr) - 1) : In27(ctr[k])
        /\ In37(ctr[Len(ctr)])
        /\ Rank37(ctr) = iter
        /\ (iter = 1 => ctr = <<48>>)

\* The iteration has carried out of its last position: `_z` has become `a0`.
IncrementEnumerationWitness ==
    /\ pc = "increment"
    /\ ctr = <<97, 48>>
    /\ iter = 37 + 37 + 1

\* s comes before t, shorter strings first and strings of one length in the
\* order of their bytes (0..9 before `_` before a..z).
StrictlyBefore(s, t) ==
    \/ Len(s) < Len(t)
    \/ /\ Len(s) = Len(t)
       /\ \E k \in 1..Len(s) :
             /\ \A j \in 1..(k - 1) : s[j] = t[j]
             /\ s[k] < t[k]

---------------------------------------------------------------------------
(* Properties of the checks made on labels *)

\* The captures inside capture c of the buffer, by index.
Inside(c) == {d \in 1..Len(captures) : d > c /\ d < c + captures[c].subtree_len}

\* The span of capture r of the buffer.
SpanOf(r) == [start |-> captures[r].start, end |-> captures[r].end]

\* C16 (recipient checks): when the last stat of the board has been parsed,
\* for every Reference capture of its script that contains a Recipient: if
\* it contains an Anon capture, the error "message targets not allowed for
\* anonymous labels" is recorded at the span of the recipient word, which
\* ends right before the colon, and the other error is not; otherwise, if
\* it contains a Local capture, the error "message targets not supported
\* for local labels" is recorded there and the first is not; otherwise
\* neither error is recorded there.
RecipientChecks ==
    pc = "resolve" =>
        \A c \in 1..Len(captures) :
        \A r \in Inside(c) :
            (captures[c].kind = "Reference" /\ captures[r].kind = "Recipient") =>
                LET anon == \E d \in Inside(c) : captures[d].kind = "Anon"
                    local == \E d \in Inside(c) : captures[d].kind = "Local"
                    notAllowed ==
                        ErrorAt("message targets not allowed for anonymous labels",
                                Len(board), SpanOf(r))
                    notSupported ==
                        ErrorAt("message targets not supported for local labels",
                                Len(board), SpanOf(r))
                IN /\ input[captures[r].end + 1] = 58
                   /\ captures[r].end > captures[r].start
                   /\ notAllowed = anon
                   /\ notSupported = (~anon /\ local)

\* The script `#take gems 1 #x:@f` has been parsed: its reference has the
\* recipient `x` and an anonymous label, and the error is recorded at `x`.
RecipientChecksWitness ==
    /\ pc = "resolve"
    /\ input = Str(<<"#","t","a","k","e"," ","g","e","m","s"," ","1"," ","#","x",":","@","f">>)
    /\ \E c \in 1..Len(captures) : \E r \in Inside(c) :
          /\ captures[c].kind = "Reference"
          /\ captures[r].kind = "Recipient"
          /\ SpanOf(r) = [start |-> 14, end |-> 15]
          /\ ErrorAt("message targets not allowed for anonymous labels", 1, SpanOf(r))

\* A named label written with both a base and a local: `touch.foo`.
SectionedLocal(c) == NamedLabel(c) /\ c.name.local # <<>> /\ c.name.name # <<>>

\* C17 (local definitions must not name a section): once the locals are
\* resolved, a label written with a base and a local is left as written;
\* if it is a definition, the error "local label definitions cannot specify
\* a section name" is recorded at its span, and it starts no section: the
\* bare locals after it are resolved as if it were not there, against the
\* sections the definitions without a local start.  If it is a reference,
\* no such error is recorded at its span.
SectionedLocalDefinitions ==
    \A i \in 1..Len(hist.resolved) :
        LET chunks == hist.parsed[i] IN
        \A k \in 1..Len(chunks) :
            SectionedLocal(chunks[k]) =>
                /\ hist.resolved[i][k] = chunks[k]
                /\ ErrorAt("local label definitions cannot specify a section name",
                           i, chunks[k].name.span) = ~chunks[k].is_ref
                /\ \A m \in (k + 1)..Len(chunks) :
                      (BareLocal(chunks[m])
                         /\ chunks[m].name.namespace = chunks[k].name.namespace) =>
                         hist.resolved[i][m].name.name
                           = NthPrefix(BaseOf(chunks, SectionOf(chunks, m)),
                                       Cardinality(SectionsWithLocal(chunks, m)))

\* In `:t`, `:u.f`, `:.f`, `#t.f` the definition `:u.f` has the error, the
\* bare `.f` after it is resolved to section t, and the reference `#t.f`
\* is as written, without an error.
SectionedLocalWitness ==
    /\ pc = "done"
    /\ Len(hist.parsed[1]) >= 7
    /\ \E k \in 1..Len(hist.parsed[1]) :
          /\ SectionedLocal(hist.parsed[1][k])
          /\ ~hist.parsed[1][k].is_ref
          /\ hist.parsed[1][k].name.name = Str(<<"u">>)
          /\ ErrorAt("local label definitions cannot specify a section name",
                     1, hist.parsed[1][k].name.span)
          /\ \E m \in (k + 1)..Len(hist.parsed[1]) :
                /\ BareLocal(hist.parsed[1][m])
                /\ hist.resolved[1][m].name.name = Str(<<"t">>)
          /\ \E m \in (k + 1)..Len(hist.parsed[1]) :
                /\ SectionedLocal(hist.parsed[1][m])
                /\ hist.parsed[1][m].is_ref
                /\ hist.resolved[1][m].name.name = Str(<<"t">>)

---------------------------------------------------------------------------
(* Properties of the generated parser's terms *)

\* The expression of the lookahead on top of the stack has just returned.
LookaheadResumes ==
    /\ pc \in {"parse", "test"}
    /\ stack # <<>>
    /\ ret \in {"true", "false"}
    /\ TopTerm.op \in {"NegLookahead", "PosLookahead"}

\* C18 (lookaheads are pure tests): when the expression x of a
\* NegLookahead or PosLookahead has returned, the lookahead returns with the
\* cursor and the capture buffer it was entered with, whether x matched or
\* not (so the captures x committed are gone), and its result is x's result
\* for PosLookahead and the opposite for NegLookahead.
LookaheadsArePure ==
    [][LookaheadResumes =>
          /\ offset' = Top.entry.offset
          /\ captures' = Top.entry.captures
          /\ ret' = IF (TopTerm.op = "PosLookahead") = (ret = "true")
                    THEN "true" ELSE "false"]_vars

\* A positive lookahead has returned true after its expression had moved
\* the cursor and committed a capture: both are back as they were.
LookaheadsWitness ==
    /\ last.op = "PosLookahead"
    /\ ret = "true"
    /\ last.before.offset > offset
    /\ Len(last.before.captures) > Len(captures)
    /\ last.before.captures[Len(last.before.captures)].subtree_len > 0
    /\ offset = last.entry.offset
    /\ captures = last.entry.captures

\* A byte with an ASCII upper-case letter folded to lower case.
Fold(b) == IF b >= 65 /\ b <= 90 THEN b + 32 ELSE b

\* The bytes of the input from offset o on start with s, up to ASCII case.
WindowMatches(s, o) ==
    /\ o + Len(s) <= Len(input)
    /\ \A k \in 1..Len(s) : Fold(input[o + k]) = Fold(s[k])

\* C19 (literal_i is total): a case-insensitive literal never panics, at
\* any cursor position of any input; it returns true, having advanced by
\* len(s) bytes, iff the next len(s) bytes equal s under ASCII case folding,
\* and false with the offset unchanged otherwise.
LiteralINeverPanics ==
    /\ ~(/\ pc \in {"parse", "test"}
         /\ stack # <<>>
         /\ ret = "panic"
         /\ TopTerm.op = "Literal"
         /\ TopTerm.icase)
    /\ (/\ pc \in {"parse", "test"}
        /\ ret \in {"true", "false"}
        /\ last.op = "Literal"
        /\ TermAt(last.rule, last.path).icase) =>
          LET s == TermAt(last.rule, last.path).str
              o == last.entry.offset
          IN IF WindowMatches(s, o)
             THEN ret = "true" /\ offset = o + Len(s)
             ELSE ret = "false" /\ offset = o


\* Whether the Literal or Range at path of rule's expression, as written in
\* the grammar, is to be matched without regard to ASCII case: the rule is
\* declared @icase or the term carries the i suffix itself.
DeclaredLoose(rule, path) ==
    AllRules[rule].icase \/ SubTerm(AllRules[rule].definition, path).icase

\* An ASCII lower-case letter turned to upper case, any other scalar kept.
Unfold(c) == IF c >= 97 /\ c <= 122 THEN c - 32 ELSE c

\* What a Literal or Range term, as written in the grammar, matches at byte
\* offset o of the input when it is case-insensitive (loose) or not.
SourceTermMatches(src, loose, o) ==
    IF src.op = "Literal"
    THEN IF loose THEN WindowMatches(src.str, o)
         ELSE /\ o + Len(src.str) <= Len(input)
              /\ SubSeq(input, o + 1, o + Len(src.str)) = src.str
    ELSE /\ o < Len(input)
         /\ LET c == CharAt(input, o) IN
            IF loose
            THEN \/ (src.lo <= Fold(c) /\ Fold(c) <= src.hi)
                 \/ (src.lo <= Unfold(c) /\ Unfold(c) <= src.hi)
            ELSE src.lo <= c /\ c <= src.hi

\* C20 (@icase scope): every Literal and Range of an @icase rule's own
\* expression, at any depth under the combinators, matches without regard
\* to ASCII case, and a Literal or Range of a rule that is not @icase does
\* so only when it has the i suffix, also when the rule was called from an
\* @icase rule.
ICaseScope ==
    (/\ pc \in {"parse", "test"}
     /\ ret \in {"true", "false"}
     /\ last.op \in {"Literal", "Range"}) =>
        (ret = "true") =
            SourceTermMatches(SubTerm(AllRules[last.rule].definition, last.path),
                              DeclaredLoose(last.rule, last.path),
                              last.entry.offset)

\* hex_config, which is @icase, has matched `LET ` with its literal "let ",
\* and var_name, called from it, has refused `Foo` with its literal "foo".
ICaseScopeWitness ==
    /\ pc = "test"
    /\ ret = "false"
    /\ last.op = "Literal"
    /\ last.rule = "var_name"
    /\ last.entry.offset = 4
    /\ WindowMatches(SubTerm(AllRules[last.rule].definition, last.path).str, 4)
    /\ Fold(input[1]) # input[1]
    /\ \E k \in 1..Len(stack) : AllRules[stack[k].rule].icase

---------------------------------------------------------------------------
(* A caller of error.rs: scopes are made from one root Context and from    *)
(* each other, and messages are emitted through any of them.               *)

MaxScopes == 3
MaxMessages == 2

\* The values a scope is made with (enum ContextInfo).
ContextInfos ==
    {[kind |-> "FilePath", value |-> "test.zzt"],
     [kind |-> "Board", value |-> 0], [kind |-> "Board", value |-> 1],
     [kind |-> "Stat", value |-> 0],
     [kind |-> "Span", value |-> [start |-> 0, end |-> 2]]}

\* Context::With(parent, info), made by the with_ function of info's kind
With(parent, info) ==
    CASE info.kind = "FilePath" -> with_file_path(parent, info.value)
      [] info.kind = "Board" -> with_board(parent, info.value)
      [] info.kind = "Stat" -> with_stat(parent, info.value)
      [] info.kind = "Span" -> with_span(parent, info.value)

\* Context::new(): the root scope and its empty sink
InitContext ==
    /\ pc = "context"
    /\ scopes = <<<<>>>>
    /\ messages = <<>>
    /\ arg = <<>>
    /\ out = <<>>
    /\ board = <<>>
    /\ codes = <<>>
    /\ input = <<>>
    /\ offset = 0
    /\ captures = <<>>
    /\ stack = <<>>
    /\ ret = "none"
    /\ last = NoFrame
    /\ stats = <<>>
    /\ registry = Registry_new
    /\ pool = <<>>
    /\ returned = "none"
    /\ hist = NoHist
    /\ ctr = <<>>
    /\ iter = 0
    /\ log = <<>>

\* let child = scopes[p].with_..(..)
NewScope ==
    /\ pc = "context"
    /\ Len(scopes) < MaxScopes
    /\ \E p \in 1..Len(scopes), info \in ContextInfos :
          /\ arg' = [scope |-> p, info |-> info]
          /\ scopes' = Append(scopes, With(scopes[p], info))
    /\ UNCHANGED <<pegVars, pipeVars, pc, board, hist, regVars, out>>

\* scopes[p].error(msg) or scopes[p].warning(msg)
Emit ==
    /\ pc = "context"
    /\ Len(messages) < MaxMessages
    /\ \E p \in 1..Len(scopes), level \in {"Error", "Warning"},
          msg \in {"first", "second"} :
          /\ arg' = [scope |-> p, level |-> level, msg |-> msg]
          /\ messages' = IF level = "Error"
                         THEN error(messages, scopes[p], msg)
                         ELSE warning(messages, scopes[p], msg)
    /\ UNCHANGED <<pegVars, stats, codes, registry, pool, returned, pc, board,
                   hist, regVars, scopes, out>>

NextContext ==
    \/ NewScope
    \/ Emit

SpecContext == InitContext /\ [][NextContext]_vars

---------------------------------------------------------------------------
(* Properties of the diagnostic context *)

\* The value the nearest scope of the chain ctx that sets kind gives it,
\* None when no scope of the chain does.
Nearest(ctx, kind) ==
    LET setters == {i \in 1..Len(ctx) : ctx[i].kind = kind} IN
    IF setters = {} THEN None
    ELSE Some(ctx[CHOOSE i \in setters : \A j \in setters : j <= i].value)

\* C21 (diagnostic scoping): a message emitted through a scope is appended
\* to the root sink after the messages emitted before it, carrying for each
\* of file path, board, stat and span the value of the nearest enclosing
\* scope that sets it and nothing for a field no scope sets; making a child
\* scope leaves the sink and every scope made before, its parent included,
\* as they were.
DiagnosticScoping ==
    [][pc = "context" =>
        \/ /\ scopes' = scopes
           /\ "msg" \in DOMAIN arg'
           /\ messages' = Append(messages,
                [level |-> arg'.level,
                 message |-> arg'.msg,
                 location |->
                    [file_path |-> Nearest(scopes[arg'.scope], "FilePath"),
                     board |-> Nearest(scopes[arg'.scope], "Board"),
                     stat |-> Nearest(scopes[arg'.scope], "Stat"),
                     span |-> Nearest(scopes[arg'.scope], "Span")]])
        \/ /\ messages' = messages
           /\ "info" \in DOMAIN arg'
           /\ Len(scopes') = Len(scopes) + 1
           /\ SubSeq(scopes', 1, Len(scopes)) = scopes
           /\ \A kind \in {"FilePath", "Board", "Stat", "Span"} :
                 Nearest(scopes'[Len(scopes')], kind) =
                    IF arg'.info.kind = kind THEN Some(arg'.info.value)
                    ELSE Nearest(scopes[arg'.scope], kind)]_vars

\* A message has been emitted through a scope that sets the board inside a
\* scope that sets another board: it carries the inner board and no stat.
DiagnosticScopingWitness ==
    /\ pc = "context"
    /\ "msg" \in DOMAIN arg
    /\ messages # <<>>
    /\ LET ctx == scopes[arg.scope]
           m == messages[Len(messages)] IN
       /\ Len(ctx) = 2
       /\ ctx[1].kind = "Board" /\ ctx[2].kind = "Board"
       /\ ctx[1].value # ctx[2].value
       /\ m.location.board = Some(ctx[2].value)
       /\ m.location.stat = None
       /\ Len(messages) = 2

---------------------------------------------------------------------------
(* Properties of the preferred stem *)

Digits == {CharZero + d : d \in 0..9}

\* The label as written: [namespace "~"] name ["." local].
WrittenKey(label) ==
    (IF label.namespace # None THEN label.namespace[1] \o <<Tilde>> ELSE <<>>)
    \o label.name
    \o (IF label.local # None THEN Str(<<".">>) \o label.local[1] ELSE <<>>)

\* The part of s after its last namespace separator or section dot.
AfterLastSeparator(s) ==
    LET seps == {i \in 1..Len(s) : s[i] = Tilde \/ s[i] = Ord(".")}
        from == IF seps = {} THEN 0
                ELSE CHOOSE i \in seps : \A j \in seps : j <= i
    IN SubSeq(s, from + 1, Len(s))

\* s with every maximal run of characters of the set run replaced by one
\* underscore.
Collapsed(s, run) ==
    LET kept == SelectSeq([i \in 1..Len(s) |-> i],
                          LAMBDA i : s[i] \notin run \/ i = 1 \/ s[i - 1] \notin run)
    IN [k \in 1..Len(kept) |->
           IF s[kept[k]] \in run THEN Underscore ELSE s[kept[k]]]

\* The logged calls whose name was derived from a stem and a suffix.
StemCalls ==
    {k \in 1..Len(log) :
        registry.label_transforms[LabelId(log[k].label)].kind = "FilteredWithSuffix"}

\* C22 (preferred stem), as stated: a name that sanitize derives is the
\* part of the label after its last namespace separator or section dot,
\* with every maximal run of non-letter characters, digits and underscores
\* together, collapsed to one underscore, followed by the suffix recorded
\* for the label.
StemAsSpecified ==
    pc \in {"stems", "anonymous"} =>
        \A k \in StemCalls :
            log[k].name =
                Collapsed(AfterLastSeparator(WrittenKey(log[k].label)),
                          Digits \cup {Underscore})
                \o registry.label_transforms[LabelId(log[k].label)].suffix

\* C22, amended: every maximal run of digits is replaced by one underscore
\* and the underscores of the label are kept, so that digits next to
\* underscores leave several underscores in a row.
StemCollapsesDigits ==
    pc \in {"stems", "anonymous"} =>
        \A k \in StemCalls :
            log[k].name =
                Collapsed(AfterLastSeparator(WrittenKey(log[k].label)), Digits)
                \o registry.label_transforms[LabelId(log[k].label)].suffix

\* A local with a digit before an underscore has been given a name with
\* two underscores in a row.
StemCollapsesDigitsWitness ==
    /\ pc \in {"stems", "anonymous"}
    /\ \E k \in StemCalls :
          /\ log[k].label.local # None
          /\ log[k].label.namespace # None
          /\ \E i \in 1..(Len(log[k].name) - 1) :
                log[k].name[i] = Underscore /\ log[k].name[i + 1] = Underscore
          /\ \E i \in 1..Len(log[k].label.local[1]) :
                log[k].label.local[1][i] \in Digits

---------------------------------------------------------------------------
(* The macro preprocessor: preprocess/scan.rs, preprocess/parse.rs and     *)
(* preprocess/eval.rs.  The scanner's cursor is a 1-based index into the   *)
(* text; the inputs are ASCII, so a char is a byte.                        *)

Newline == Ord("\n")
Percent == Ord("%")
Quote == Ord("\"")
Backslash == Ord("\\")

Token(type, value) == [type |-> type, value |-> value]

\* Scanner::get_escaped_char, called with the cursor after the backslash
get_escaped_char(txt, i) ==
    IF i <= Len(txt) THEN [char |-> txt[i], i |-> i + 1]
    ELSE [char |-> Backslash, i |-> i]

\* Scanner::raw_text: the token's text so far and the cursor
RECURSIVE raw_text(_, _, _)
raw_text(txt, i, result) ==
    IF i > Len(txt) \/ txt[i] = Newline THEN [value |-> result, i |-> i]
    ELSE IF txt[i] = Backslash
    THEN LET e == get_escaped_char(txt, i + 1) IN
         raw_text(txt, e.i, IF e.char # Newline THEN Append(result, e.char)
                            ELSE result)
    ELSE raw_text(txt, i + 1, Append(result, txt[i]))

\* Scanner::string's loop, from after the leading quote up to the closing
\* quote or the end of the text
RECURSIVE string_body(_, _, _)
string_body(txt, i, result) ==
    IF i > Len(txt) \/ txt[i] = Quote THEN [value |-> result, i |-> i]
    ELSE IF txt[i] = Backslash
    THEN LET e == get_escaped_char(txt, i + 1) IN
         string_body(txt, e.i, IF e.char # Newline THEN Append(result, e.char)
                               ELSE result)
    ELSE string_body(txt, i + 1, Append(result, txt[i]))

\* Scanner::string, with the cursor on the leading quote
string(txt, i) ==
    LET b == string_body(txt, i + 1, <<>>)
        closed == b.i <= Len(txt) /\ txt[b.i] = Quote
    IN [value |-> b.value,
        i |-> IF closed THEN b.i + 1 ELSE b.i,
        errors |-> IF closed THEN <<>> ELSE <<"string not terminated">>]

\* Scanner::identifier
RECURSIVE identifier(_, _, _)
identifier(txt, i, result) ==
    IF i <= Len(txt) /\ (IsAsciiDigit(txt[i]) \/ IsAsciiAlphabetic(txt[i])
                         \/ txt[i] = Underscore)
    THEN identifier(txt, i + 1, Append(result, txt[i]))
    ELSE [value |-> result, i |-> i]

\* Scanner::scan_macro, after the Percent token has been pushed
RECURSIVE scan_macro(_, _, _, _)
scan_macro(txt, i, tokens, errors) ==
    IF i > Len(txt) \/ txt[i] = Newline
    THEN [i |-> i, tokens |-> tokens, errors |-> errors]
    ELSE IF txt[i] = Ord(" ") THEN scan_macro(txt, i + 1, tokens, errors)
    ELSE IF txt[i] = Quote
    THEN LET r == string(txt, i) IN
         scan_macro(txt, r.i, Append(tokens, Token("String", r.value)),
                    errors \o r.errors)
    ELSE IF IsAsciiAlphabetic(txt[i]) \/ txt[i] = Underscore
    THEN LET r == identifier(txt, i, <<>>) IN
         scan_macro(txt, r.i, Append(tokens, Token("Identifier", r.value)), errors)
    ELSE scan_macro(txt, i + 1, tokens, Append(errors, "Unexpected character"))

\* Scanner::scan
RECURSIVE scan_from(_, _, _, _)
scan_from(txt, i, tokens, errors) ==
    IF i > Len(txt) THEN <<tokens, errors>>
    ELSE IF txt[i] = Newline
    THEN scan_from(txt, i + 1, Append(tokens, Token("Newline", <<>>)), errors)
    ELSE IF txt[i] = Percent
    THEN LET r == scan_macro(txt, i + 1, Append(tokens, Token("Percent", <<>>)),
                             errors)
         IN scan_from(txt, r.i, r.tokens, r.errors)
    ELSE LET r == raw_text(txt, i, <<>>) IN
         scan_from(txt, r.i, Append(tokens, Token("RawText", r.value)), errors)

\* scan(input): the tokens and the errors
scan(txt) == scan_from(txt, 1, <<>>, <<>>)

\* enum Expr
ZztOop(s) == [kind |-> "ZztOop", value |-> s, args |-> <<>>]
Macro(name, args) == [kind |-> "Macro", value |-> name, args |-> args]
StringExpr(s) == [kind |-> "String", value |-> s, args |-> <<>>]

Ok(v) == [ok |-> TRUE, value |-> v]
Err(msg) == [ok |-> FALSE, value |-> msg]

\* Parser::parse_zzt_oop: the text of the RawText and Newline tokens from
\* pos on, and the position of the first token of another type
RECURSIVE parse_zzt_oop(_, _, _)
parse_zzt_oop(tokens, pos, parts) ==
    IF pos <= Len(tokens) /\ tokens[pos].type = "RawText"
    THEN parse_zzt_oop(tokens, pos + 1, parts \o tokens[pos].value)
    ELSE IF pos <= Len(tokens) /\ tokens[pos].type = "Newline"
    THEN parse_zzt_oop(tokens, pos + 1, Append(parts, Newline))
    ELSE [expr |-> ZztOop(parts), pos |-> pos]

\* Parser::parse_macro's loop over the arguments
RECURSIVE parse_args(_, _, _)
parse_args(tokens, pos, args) ==
    IF pos > Len(tokens) THEN [ok |-> TRUE, args |-> args, pos |-> pos]
    ELSE IF tokens[pos].type = "String"
    THEN parse_args(tokens, pos + 1, Append(args, StringExpr(tokens[pos].value)))
    ELSE IF tokens[pos].type = "Newline"
    THEN [ok |-> TRUE, args |-> args, pos |-> pos + 1]
    ELSE [ok |-> FALSE, args |-> args, pos |-> pos]

\* Parser::parse_macro, with pos on the Percent token
parse_macro(tokens, pos) ==
    IF pos + 1 <= Len(tokens) /\ tokens[pos + 1].type = "Identifier"
    THEN LET a == parse_args(tokens, pos + 2, <<>>) IN
         [ok |-> a.ok, expr |-> Macro(tokens[pos + 1].value, a.args), pos |-> a.pos]
    ELSE [ok |-> FALSE, expr |-> Macro(<<>>, <<>>), pos |-> pos]

\* Parser::parse
RECURSIVE parse_from(_, _, _)
parse_from(tokens, pos, result) ==
    IF pos > Len(tokens) THEN Ok(result)
    ELSE IF tokens[pos].type \in {"Newline", "RawText"}
    THEN LET r == parse_zzt_oop(tokens, pos, <<>>) IN
         parse_from(tokens, r.pos, Append(result, r.expr))
    ELSE IF tokens[pos].type = "Percent"
    THEN LET r == parse_macro(tokens, pos) IN
         IF r.ok THEN parse_from(tokens, r.pos, Append(result, r.expr))
         ELSE Err("parse_macro")
    ELSE Err("Unexpected token")

parse(tokens) == parse_from(tokens, 1, <<>>)

\* FileLoaderTrait::load: files maps a path to the file's content
load(files, path) ==
    IF path \in DOMAIN files THEN Ok(files[path]) ELSE Err("Couldn't load")

\* content.replace("\r\n", "\n")
RECURSIVE replace_crlf(_)
replace_crlf(content) ==
    IF content = <<>> THEN <<>>
    ELSE IF Len(content) >= 2 /\ content[1] = Ord("\r") /\ content[2] = Newline
    THEN <<Newline>> \o replace_crlf(SubSeq(content, 3, Len(content)))
    ELSE <<content[1]>> \o replace_crlf(Tail(content))

\* if content.ends_with("\n") { content.pop(); }
pop_newline(content) ==
    IF content # <<>> /\ content[Len(content)] = Newline
    THEN SubSeq(content, 1, Len(content) - 1) ELSE content

\* eval_program's loop over the expressions, result being the parts pushed
\* so far, joined
RECURSIVE eval_exprs(_, _, _, _)
eval_exprs(files, exprs, k, result) ==
    IF k > Len(exprs) THEN Ok(result)
    ELSE LET expr == exprs[k] IN
         IF expr.kind = "ZztOop"
         THEN eval_exprs(files, exprs, k + 1, result \o expr.value)
         ELSE IF expr.kind = "Macro"
         THEN IF expr.value = Str(<<"i","n","c","l","u","d","e">>)
              THEN IF Len(expr.args) # 1
                   THEN Err("wrong number of args for %include")
                   ELSE IF expr.args[1].kind # "String"
                   THEN Err("%include filename must be a string")
                   ELSE LET loaded == load(files, expr.args[1].value) IN
                        IF ~loaded.ok THEN loaded
                        ELSE eval_exprs(files, exprs, k + 1,
                                 result \o pop_newline(replace_crlf(loaded.value)))
              ELSE Err("Unknown macro")
         ELSE Err("Unexpected expr")

---------------------------------------------------------------------------
(* eval_program on a program and the files it can load, one statement of   *)
(* the function at a time                                                  *)

IncludeWord == Str(<<"%","i","n","c","l","u","d","e">>)

\* The directive %include "path"
Include(path) == IncludeWord \o Str(<<" ","\"">>) \o path \o <<Quote>>

PathBb == Str(<<"b","b",".","t","x","t">>)
PathFoo == Str(<<"f","o","o",".","t","x","t">>)
PathF == Str(<<"f">>)

\* The programs of eval.rs's tests include, include_windows and
\* unknown_macro, directives at the start, in the middle and at the end of
\* a program, plain text, and directives that are not well formed.
Programs ==
    {Str(<<"f","o","o","\n">>) \o Include(PathBb) \o Str(<<"\n","q","u","u","x">>),
     Include(PathFoo),
     Str(<<"%","f","o","o">>),
     Str(<<"a","\n">>) \o Include(PathF),
     Include(PathF) \o Str(<<"\n","\n","b">>),
     Include(PathF) \o <<Newline>> \o Include(PathF) \o Str(<<"\n","b">>),
     Str(<<"a","\n","b">>),
     IncludeWord,
     Include(PathF) \o Str(<<" ","\"","g","\"">>),
     Str(<<"a","\\","\n","b","\\","\\","c","\\">>),
     IncludeWord \o Str(<<" ","\"","f">>),
     Str(<<"%","1","\n","a">>)}

\* The content every path loads (MockFileLoader), or no file at all.
FileSets ==
    {[path \in {PathBb, PathFoo, PathF} |-> content] :
        content \in {Str(<<"b","a","r","\n","b","a","z","\n">>),
                     Str(<<"f","o","o","\r","\n","b","a","r">>),
                     <<>>,
                     Str(<<"x">>),
                     Str(<<"x","\n","\n">>),
                     Str(<<"\n">>),
                     Str(<<"x","\r","\n">>)}}
    \cup {<<>>}

InitEval ==
    /\ pc = "scan"
    /\ arg \in {[program |-> p, files |-> f] : p \in Programs, f \in FileSets}
    /\ out = <<>>
    /\ scopes = <<>>
    /\ messages = <<>>
    /\ board = <<>>
    /\ codes = <<>>
    /\ input = <<>>
    /\ offset = 0
    /\ captures = <<>>
    /\ stack = <<>>
    /\ ret = "none"
    /\ last = NoFrame
    /\ stats = <<>>
    /\ registry = Registry_new
    /\ pool = <<>>
    /\ returned = "none"
    /\ hist = NoHist
    /\ ctr = <<>>
    /\ iter = 0
    /\ log = <<>>

\* let tokens = scan(input).0;
ScanProgram ==
    /\ pc = "scan"
    /\ out' = scan(arg.program)[1]
    /\ pc' = "parse"
    /\ UNCHANGED <<pegVars, pipeVars, board, hist, regVars, scopes, arg>>

\* let exprs = parse(tokens)?;
ParseTokens ==
    /\ pc = "parse"
    /\ out' = parse(out)
    /\ pc' = "eval"
    /\ UNCHANGED <<pegVars, pipeVars, board, hist, regVars, scopes, arg>>

\* the loop over exprs and Ok(result.join("")), or the error of parse
EvalExprs ==
    /\ pc = "eval"
    /\ out' = IF out.ok THEN eval_exprs(arg.files, out.value, 1, <<>>) ELSE out
    /\ pc' = "evaluated"
    /\ UNCHANGED <<pegVars, pipeVars, board, hist, regVars, scopes, arg>>

NextEval ==
    \/ ScanProgram
    \/ ParseTokens
    \/ EvalExprs

SpecEval == InitEval /\ [][NextEval]_vars

---------------------------------------------------------------------------
(* Properties of the preprocessor *)

\* The lines of s: the pieces between its line breaks.
RECURSIVE SplitLines(_)
SplitLines(s) ==
    IF \A i \in 1..Len(s) : s[i] # Newline THEN <<s>>
    ELSE LET n == CHOOSE i \in 1..Len(s) :
                     s[i] = Newline /\ \A j \in 1..(i - 1) : s[j] # Newline
         IN <<SubSeq(s, 1, n - 1)>> \o SplitLines(SubSeq(s, n + 1, Len(s)))

\* A line that is the directive %include "path" and nothing else.
IsIncludeLine(l) ==
    /\ Len(l) >= Len(IncludeWord) + 3
    /\ SubSeq(l, 1, Len(IncludeWord) + 2) = IncludeWord \o Str(<<" ","\"">>)
    /\ l[Len(l)] = Quote
    /\ \A i \in (Len(IncludeWord) + 3)..(Len(l) - 1) : l[i] # Quote

\* A program of plain lines and include directives, without escapes.
IsIncludeProgram(p) ==
    /\ \A i \in 1..Len(p) : p[i] # Backslash
    /\ \A k \in 1..Len(SplitLines(p)) :
          LET l == SplitLines(p)[k] IN
          (\E i \in 1..Len(l) : l[i] = Percent) => IsIncludeLine(l)
    /\ \E k \in 1..Len(SplitLines(p)) : IsIncludeLine(SplitLines(p)[k])

\* A file's content with \r\n turned to \n and one trailing \n removed.
Normalised(content) ==
    LET lf == SelectSeq([i \in 1..Len(content) |-> i],
                 LAMBDA i : ~(/\ content[i] = Ord("\r")
                              /\ i < Len(content)
                              /\ content[i + 1] = Newline))
        normal == [k \in 1..Len(lf) |-> content[lf[k]]]
    IN IF normal # <<>> /\ normal[Len(normal)] = Newline
       THEN SubSeq(normal, 1, Len(normal) - 1) ELSE normal

\* The program with each include line replaced by the normalised content.
Spliced(p, content) ==
    JoinLines([k \in 1..Len(SplitLines(p)) |->
                  IF IsIncludeLine(SplitLines(p)[k]) THEN Normalised(content)
                  ELSE SplitLines(p)[k]])

\* C23 (%include splicing): eval_program replaces each %include "path"
\* line by the file's content, \r\n normalised to \n and one trailing \n
\* removed, and leaves the text around it and its line breaks as they were:
\* the text of the line after the directive still starts on its own line.
IncludeSplicing ==
    (/\ pc = "evaluated"
     /\ IsIncludeProgram(arg.program)
     /\ arg.files # <<>>) =>
        out = Ok(Spliced(arg.program, arg.files[PathF]))

---------------------------------------------------------------------------
(* Pascal strings of the world file (world.rs): push_string writes a       *)
(* field, pstring reads one.  A byte buffer is a sequence of 0..255.       *)

\* SerializationHelpers::push_padding
push_padding(buf, size) == buf \o [i \in 1..size |-> 0]

\* SerializationHelpers::push_string: whether it returned Ok, and the buffer
push_string(buf, cap, value) ==
    IF Len(value) > cap THEN [ok |-> FALSE, buf |-> buf]
    ELSE [ok |-> TRUE,
          buf |-> push_padding(buf \o <<Len(value) % 256>> \o value,
                               cap - Len(value))]

\* pstring(cap)(input): Ok((rest, data)) or an error
pstring(cap, bytes) ==
    IF bytes = <<>> THEN [ok |-> FALSE, data |-> <<>>, rest |-> bytes]
    ELSE LET len == bytes[1]
             after_len == Tail(bytes)
         IN IF len >= cap
            THEN [ok |-> FALSE, data |-> <<>>, rest |-> after_len]
            ELSE IF Len(after_len) < len
            THEN [ok |-> FALSE, data |-> <<>>, rest |-> after_len]
            ELSE IF Len(after_len) - len < cap - len
            THEN [ok |-> FALSE, data |-> <<>>, rest |-> after_len]
            ELSE [ok |-> TRUE,
                  data |-> SubSeq(after_len, 1, len),
                  rest |-> SubSeq(after_len, cap + 1, Len(after_len))]

MaxCap == 3

\* Byte strings of up to n bytes
BytesUpTo(n) == UNION {[1..k -> {0, 65, 255}] : k \in 0..n}

\* A field of capacity cap is written with value, other fields follow it
\* (tail), and the field is read back.
InitPstring ==
    /\ pc = "push"
    /\ arg \in {[cap |-> cap, value |-> v, tail |-> t] :
                   cap \in 0..MaxCap, v \in BytesUpTo(MaxCap + 1),
                   t \in {<<>>, <<7>>}}
    /\ out = <<>>
    /\ scopes = <<>>
    /\ messages = <<>>
    /\ board = <<>>
    /\ codes = <<>>
    /\ input = <<>>
    /\ offset = 0
    /\ captures = <<>>
    /\ stack = <<>>
    /\ ret = "none"
    /\ last = NoFrame
    /\ stats = <<>>
    /\ registry = Registry_new
    /\ pool = <<>>
    /\ returned = "none"
    /\ hist = NoHist
    /\ ctr = <<>>
    /\ iter = 0
    /\ log = <<>>

\* result.push_string(cap, &value)?, then the fields after it
PushString ==
    /\ pc = "push"
    /\ \E r \in {push_string(<<>>, arg.cap, arg.value)} :
          IF r.ok THEN /\ out' = r.buf \o arg.tail
                       /\ pc' = "pushed"
          ELSE /\ out' = r.buf
               /\ pc' = "refused"
    /\ UNCHANGED <<pegVars, pipeVars, board, hist, regVars, scopes, arg>>

\* pstring(cap)(input) on the bytes written
ReadPstring ==
    /\ pc = "pushed"
    /\ out' = pstring(arg.cap, out)
    /\ pc' = "read"
    /\ UNCHANGED <<pegVars, pipeVars, board, hist, regVars, scopes, arg>>

NextPstring ==
    \/ PushString
    \/ ReadPstring

SpecPstring == InitPstring /\ [][NextPstring]_vars

---------------------------------------------------------------------------
(* Properties of the Pascal strings *)

\* C24 (Pascal-string round trip): a byte string of length at most cap that
\* push_string(cap, ..) has written is accepted by pstring(cap) and read
\* back identical, 1 + cap bytes being consumed, also when its length is
\* cap.
PstringRoundTrip ==
    pc = "read" =>
        /\ out.ok
        /\ out.data = arg.value
        /\ out.rest = arg.tail

---------------------------------------------------------------------------
(* Properties of the board process_labels returns *)

\* C25 (only scripts change): process_labels never writes to the board it
\* is given, and the board it builds has, at every moment and so when it is
\* returned, the stats of the input in the same number and order, each
\* equal to the input's in every field other than its code.
OnlyScriptsChange ==
    /\ [][board' = board]_vars
    /\ [](/\ Len(codes) = Len(board)
          /\ \A i \in 1..Len(board) :
                [f \in DOMAIN codes[i] \ {"code"} |-> codes[i][f]]
                    = [f \in DOMAIN board[i] \ {"code"} |-> board[i][f]])

\* A board of two stats has been returned, the code of both rewritten.
OnlyScriptsChangeWitness ==
    /\ pc = "done"
    /\ returned = "Some"
    /\ Len(board) = 2
    /\ codes[1].code # board[1].code
    /\ codes[2].code # board[2].code

---------------------------------------------------------------------------
(* Properties of commit_capture *)

\* The captures of the buffer that have been committed.
Committed(caps) == {i \in 1..Len(caps) : caps[i].subtree_len > 0}

\* C26 (commit_capture is safe): the code of a Capture term never reaches
\* commit_capture with an index outside the buffer or with a capture that
\* is no longer pending; when it returns true the capture it began spans
\* from the offset it was entered at to the current offset and its
\* subtree_len counts the captures from its index to the end of the buffer;
\* and every committed capture has start <= end and holds the span of each
\* capture of its subtree within its own.
CommitCaptureSafe ==
    pc \in {"parse", "test"} =>
        /\ ~(/\ stack # <<>>
             /\ ret = "panic"
             /\ TopTerm.op = "Capture")
        /\ (ret = "true" /\ last.op = "Capture") =>
              LET index == Len(last.entry.captures) + 1 IN
              /\ index <= Len(captures)
              /\ captures[index].start = last.entry.offset
              /\ captures[index].end = offset
              /\ captures[index].subtree_len = Len(captures) - index + 1
        /\ \A i \in Committed(captures) :
              /\ captures[i].start <= captures[i].end
              /\ \A j \in (i + 1)..(i + captures[i].subtree_len - 1) :
                    /\ j <= Len(captures)
                    /\ captures[i].start <= captures[j].start
                    /\ captures[j].end <= captures[i].end

\* A capture has been committed around two captures committed before it,
\* both non-empty and the second starting after the first has ended.
CommitCaptureWitness ==
    /\ pc = "test"
    /\ ret = "true"
    /\ last.op = "Capture"
    /\ LET index == Len(last.entry.captures) + 1 IN
       /\ captures[index].subtree_len = 3
       /\ captures[index + 1].end > captures[index + 1].start
       /\ captures[index + 2].start > captures[index + 1].end
       /\ captures[index + 2].end = captures[index].end

---------------------------------------------------------------------------
(* Properties of the pool of anonymous names *)

\* The indices of a script's anonymous definitions, in the script's order
\* and whatever their namespace.
AnonymousDefinitions(chunks) ==
    SelectSeq([k \in 1..Len(chunks) |-> k],
              LAMBDA k : /\ IsLabel(chunks[k])
                         /\ chunks[k].is_anon
                         /\ ~chunks[k].is_ref)

\* C27 (anonymous name pool): once the forward pass has run, in every
\* script the k-th anonymous definition, counted over all namespaces, has
\* the k-th name of the pool, every script starting again at the first; the
\* names of the pool differ from each other, so that no two anonymous
\* definitions of a script share a name; and the pool holds as many names,
\* one per call of gen_anonymous, as the largest number of anonymous
\* definitions in a script of the board.
AnonymousPool ==
    pc \in {"backward", "join", "done"} =>
        /\ \A s \in 1..Len(hist.forward) :
              LET defs == AnonymousDefinitions(hist.forward[s]) IN
              /\ Len(defs) <= Len(pool)
              /\ \A k \in 1..Len(defs) :
                    hist.forward[s][defs[k]].name.name = pool[k]
        /\ \A a, b \in 1..Len(pool) : a # b => pool[a] # pool[b]
        /\ \/ pool = <<>>
           \/ \E s \in 1..Len(hist.forward) :
                 Len(AnonymousDefinitions(hist.forward[s])) = Len(pool)

\* A board of two scripts, the first with one anonymous definition and the
\* second with two: the pool has two names and both scripts begin with the
\* first of them.
AnonymousPoolWitness ==
    /\ pc = "done"
    /\ Len(hist.forward) = 2
    /\ Len(pool) = 2
    /\ Len(AnonymousDefinitions(hist.forward[1])) = 1
    /\ Len(AnonymousDefinitions(hist.forward[2])) = 2
    /\ hist.forward[1][AnonymousDefinitions(hist.forward[1])[1]].name.name
          = hist.forward[2][AnonymousDefinitions(hist.forward[2])[1]].name.name

---------------------------------------------------------------------------
(* Properties of the locals of one section *)

\* The sections before that of chunk k, of its namespace and with its
\* section's name, in which the local of chunk k occurs as a bare local.
EarlierSectionsWithLocal(chunks, k) ==
    {j \in SectionsWithLocal(chunks, k) : j < SectionOf(chunks, k)}

\* C28 (section-local consistency): once the locals of a script are
\* resolved, the occurrences of one `.local` within one section of a
\* namespace, definitions and references in any order, all have the same
\* section prefix, and the index of that prefix is the number of earlier
\* sections of the same name in which that local occurred: other locals,
\* and sections of the same name without the local, do not advance it.
SectionLocalConsistency ==
    \A i \in 1..Len(hist.resolved) :
        LET chunks == hist.parsed[i]
            locals == {k \in 1..Len(chunks) : BareLocal(chunks[k])}
        IN /\ \A k, m \in locals :
                 (/\ chunks[k].name.namespace = chunks[m].name.namespace
                  /\ chunks[k].name.local = chunks[m].name.local
                  /\ SectionOf(chunks, k) = SectionOf(chunks, m))
                 => hist.resolved[i][k].name.name = hist.resolved[i][m].name.name
           /\ \A k \in locals :
                 LET base == BaseOf(chunks, SectionOf(chunks, k))
                     index == Cardinality(EarlierSectionsWithLocal(chunks, k))
                 IN hist.resolved[i][k].name.name =
                       IF index = 0 THEN base
                       ELSE base \o Str(<<"$">>) \o Decimal(index)

\* In the third section of a name a local is referred to and then defined,
\* the second section of that name having another local only: both
\* occurrences have the index 1.
SectionLocalConsistencyWitness ==
    \E i \in 1..Len(hist.resolved) :
        LET chunks == hist.parsed[i] IN
        \E k, m \in 1..Len(chunks) :
            /\ k < m
            /\ BareLocal(chunks[k]) /\ BareLocal(chunks[m])
            /\ chunks[k].is_ref /\ ~chunks[m].is_ref
            /\ chunks[k].name.local = chunks[m].name.local
            /\ SectionOf(chunks, k) = SectionOf(chunks, m)
            /\ Cardinality({j \in SectionStarts(chunks, chunks[k].name.namespace) :
                               /\ j <= SectionOf(chunks, k)
                               /\ BaseOf(chunks, j) = BaseOf(chunks, SectionOf(chunks, k))}) = 3
            /\ Cardinality(EarlierSectionsWithLocal(chunks, k)) = 1
            /\ hist.resolved[i][k].name.name = Str(<<"t","$","1">>)
            /\ hist.resolved[i][m].name.name = Str(<<"t","$","1">>)

---------------------------------------------------------------------------
(* Properties of the names given to locals *)

\* C29 (no local-label collision across sections): once the named labels
\* are sanitized, two definitions of the same local name that lie in
\* different sections of a script have different final names, also when the
\* names of the two sections differ in ASCII letter case only.
NoLocalCollision ==
    pc \in {"forward", "backward", "join", "done"} =>
        \A i \in 1..Len(hist.sanitized) :
            LET chunks == hist.parsed[i]
                definitions == {k \in 1..Len(chunks) :
                                   BareLocal(chunks[k]) /\ ~chunks[k].is_ref}
            IN \A k, m \in definitions :
                  (/\ chunks[k].name.namespace = chunks[m].name.namespace
                   /\ chunks[k].name.local = chunks[m].name.local
                   /\ SectionOf(chunks, k) # SectionOf(chunks, m))
                  => hist.sanitized[i][k].name.name # hist.sanitized[i][m].name.name

---------------------------------------------------------------------------
(* Termination of the script parser *)

\* The generated functions run to completion: a step is taken whenever one
\* can be.
SpecPegFair == InitPeg /\ [][PegStep]_vars /\ WF_vars(PegStep)

ScriptRules == DOMAIN Rules

\* Whether the code of term t can return true with the cursor where it
\* found it, N being the rules that can.
RECURSIVE Nullable(_, _)
Nullable(t, N) ==
    CASE t.op \in {"AnyChar", "Range"} -> FALSE
      [] t.op = "Literal" -> Len(t.str) = 0
      [] t.op = "Rule" -> t.name \in N
      [] t.op \in {"Capture", "Plus"} -> Nullable(t.terms[1], N)
      [] t.op = "Sequence" -> \A k \in 1..Len(t.terms) : Nullable(t.terms[k], N)
      [] t.op = "Choice" -> \E k \in 1..Len(t.terms) : Nullable(t.terms[k], N)
      [] OTHER -> TRUE

RECURSIVE NullableRules(_, _)
NullableRules(N, k) ==
    LET M == {r \in ScriptRules : Nullable(Grammar[r], N)}
    IN IF k = 0 \/ M = N THEN N ELSE NullableRules(M, k - 1)

NullableScriptRules == NullableRules({}, Cardinality(ScriptRules))

\* The Star and Plus terms of an expression.
RECURSIVE Loops(_)
Loops(t) ==
    (IF t.op \in {"Star", "Plus"} THEN {t} ELSE {})
        \cup UNION {Loops(t.terms[k]) : k \in 1..Len(t.terms)}

\* The rules an expression can call with the cursor where it found it.
RECURSIVE LeftCalls(_, _)
LeftCalls(t, N) ==
    IF t.op = "Rule" THEN {t.name}
    ELSE IF t.op = "Sequence"
    THEN UNION {LeftCalls(t.terms[k], N) :
                   k \in {k \in 1..Len(t.terms) :
                             \A j \in 1..(k - 1) : Nullable(t.terms[j], N)}}
    ELSE UNION {LeftCalls(t.terms[k], N) : k \in 1..Len(t.terms)}

RECURSIVE LeftReach(_, _, _)
LeftReach(S, N, k) ==
    LET T == S \cup UNION {LeftCalls(Grammar[r], N) : r \in S}
    IN IF k = 0 \/ T = S THEN S ELSE LeftReach(T, N, k - 1)

\* No loop of the script grammar has a body that can succeed on nothing.
LoopBodiesConsume ==
    \E N \in {NullableScriptRules} :
       \A r \in ScriptRules : \A l \in Loops(Grammar[r]) :
          ~Nullable(l.terms[1], N)

\* No rule of the script grammar can reach itself without consuming.
NoLeftRecursion ==
    \E N \in {NullableScriptRules} :
       \A r \in ScriptRules :
          r \notin LeftReach(LeftCalls(Grammar[r], N), N, Cardinality(ScriptRules))

\* The run is one of the rule `program`.
ProgramRun == pc = "test" /\ stack # <<>> /\ stack[1].rule = "program"

\* An iteration of a loop that returned true moved the cursor.
IterationConsumes ==
    (/\ ProgramRun
     /\ TopTerm.op \in {"Star", "Plus"}
     /\ Top.pc = "wait"
     /\ ret = "true")
    => /\ last.rule = Top.rule
       /\ last.path = Append(Top.path, 1)
       /\ offset > last.entry.offset

\* A rule running inside a call of itself was entered further on.
RecursionConsumes ==
    ProgramRun =>
        \A i, j \in 1..Len(stack) :
           (/\ i < j
            /\ stack[i].path = <<>>
            /\ stack[j].path = <<>>
            /\ stack[i].rule = stack[j].rule)
           => stack[j].entry.offset > stack[i].entry.offset

ProgramProgress ==
    /\ LoopBodiesConsume
    /\ NoLeftRecursion
    /\ IterationConsumes
    /\ RecursionConsumes

\* A run of `program` ends, with a result or in a panic.
ProgramEnds ==
    ProgramRun ~> (stack = <<>> \/ ret = "panic")

\* C30 (termination): on every input the rule `program` terminates and
\* returns true or false; no Star or Plus of the script grammar has a body
\* that can succeed without consuming input, and a recursion through the
\* compound commands consumes a character before it recurses.
ProgramTerminates ==
    /\ ProgramRun ~> (stack = <<>> /\ ret \in {"true", "false"})
    /\ []ProgramProgress

=============================================================================
